---- MODULE Spec2Model ----
(***************************************************************************)
(* Zero-knowledge proof of a Hamiltonian cycle (hash-commitment protocol). *)
(* Graph: models/graph.ts, Prover: roles/prover.ts, Verifier:              *)
(* roles/verifier.ts, utilities: utils/permutation.ts, utils/commitment.ts *)
(* and models/hamiltonian-cycle.ts.                                        *)
(*                                                                         *)
(* JS arrays are 0-indexed, TLA+ sequences 1-indexed: element i of an      *)
(* array is element i+1 of the sequence that models it (see ArrGet).       *)
(* A pair [u, v] is the tuple <<u, v>>.  A string is a sequence of         *)
(* one-character strings, so that data + salt is sequence concatenation.   *)
(***************************************************************************)
EXTENDS Integers, Sequences, FiniteSets, TLC

VARIABLES
  graph,            \* the original graph G (Graph object shared by main, Prover, Verifier)
  hamiltonianCycle, \* the cycle main read; Prover.hamiltonianCycle once constructed
  pc,               \* position of the program
  k,                \* generateProof's argument k
  challenges,       \* generateProof's argument challenges
  i,                \* loop index of generateProof
  rounds,           \* generateProof's local array rounds
  local,            \* locals of the current loop iteration: permutedGraph, permutation, commitment
  proof,            \* the ZKPProof handed to verifyProof
  vi,               \* loop index of verifyProof
  opened,           \* history: positions of the rounds verifyRound was called on
  result,           \* what verifyProof returned
  advRound,         \* a ProofRound composed by a cheating prover
  advOutcome,       \* what verifyRound returned for advRound
  accepted,         \* history: response types accepted against the commitment at hand
  tampers           \* history: number of changes made to the proof in transit

vars == <<graph, hamiltonianCycle, pc, k, challenges, i, rounds, local, proof,
          vi, opened, result, advRound, advOutcome, accepted, tampers>>

-----------------------------------------------------------------------------
(* Bounds of the model *)

\* largest vertex count of the enumerated graphs
MaxN == 3
\* longest enumerated input edge list
MaxEdges == 3
\* largest number of rounds
MaxK == 2
\* number of hex characters of a modelled salt
SaltLen == 1
\* largest number of rounds generated for Scenario A
ScenarioK == 1

\* the value JS yields for a read outside an array
Undefined == -1000

-----------------------------------------------------------------------------
(* Arrays and strings *)

ArrGet(arr, idx) == IF idx \in 0..(Len(arr) - 1) THEN arr[idx + 1] ELSE Undefined

Range(s) == {s[x] : x \in DOMAIN s}

RECURSIVE SeqsUpTo(_, _)
SeqsUpTo(S, len) ==
  IF len = 0 THEN {<<>>}
  ELSE LET shorter == SeqsUpTo(S, len - 1)
       IN shorter \cup {Append(s, x) : s \in {t \in shorter : Len(t) = len - 1}, x \in S}

SeqsOfLen(S, len) == {s \in SeqsUpTo(S, len) : Len(s) = len}

Digits == <<"0", "1", "2", "3", "4", "5", "6", "7", "8", "9">>

\* Number -> decimal string, as a template literal `${u}` formats a non-negative integer
RECURSIVE ToDecimal(_)
ToDecimal(num) ==
  IF num < 10 THEN <<Digits[num + 1]>>
  ELSE ToDecimal(num \div 10) \o <<Digits[(num % 10) + 1]>>

-----------------------------------------------------------------------------
(* Graph *)

\* a Graph object; error # "" stands for the exception the constructor threw
NoError == ""

EmptyGraph(vertexCount) ==
  [adjacencyList |-> [x \in 0..(vertexCount - 1) |-> {}],
   edgesList |-> <<>>,
   error |-> NoError]

\* without the self-loop check
addEdge_SelfLoopsAllowed(g, u, v) ==
  IF g.error # NoError THEN g
  ELSE IF u \notin DOMAIN g.adjacencyList \/ v \notin DOMAIN g.adjacencyList
    THEN [g EXCEPT !.error = "Vertex out of range"]
  ELSE [g EXCEPT !.adjacencyList = [@ EXCEPT ![u] = @ \cup {v}, ![v] = @ \cup {u}],
                 !.edgesList = Append(@, IF u < v THEN <<u, v>> ELSE <<v, u>>)]

addEdge(g, u, v) ==
  IF g.error # NoError THEN g
  ELSE IF u = v THEN [g EXCEPT !.error = "Self-loops are not allowed"]
  ELSE IF u \notin DOMAIN g.adjacencyList \/ v \notin DOMAIN g.adjacencyList
    THEN [g EXCEPT !.error = "Vertex out of range"]
  ELSE [g EXCEPT !.adjacencyList = [@ EXCEPT ![u] = @ \cup {v}, ![v] = @ \cup {u}],
                 !.edgesList = Append(@, IF u < v THEN <<u, v>> ELSE <<v, u>>)]

\* edge[0] ?? 0 and edge[1] ?? 0: a missing endpoint reads as 0
Endpoint(edge, x) == IF x <= Len(edge) THEN edge[x] ELSE 0

RECURSIVE AddEdges(_, _)
AddEdges(g, edges) ==
  IF edges = <<>> THEN g
  ELSE AddEdges(addEdge(g, Endpoint(Head(edges), 1), Endpoint(Head(edges), 2)), Tail(edges))

\* new Graph({vertexCount, edges})
NewGraph(vertexCount, inputEdges) == AddEdges(EmptyGraph(vertexCount), inputEdges)

hasEdge(g, u, v) == u \in DOMAIN g.adjacencyList /\ v \in g.adjacencyList[u]

getVertexCount(g) == Cardinality(DOMAIN g.adjacencyList)

getEdges(g) == g.edgesList

\* Graph.inversePermutation: inv[perm[x]] = x for x ascending, so a later x overwrites
InvGet(perm, val) ==
  LET hits == {x \in 0..(Len(perm) - 1) : perm[x + 1] = val}
  IN IF hits = {} THEN Undefined ELSE CHOOSE x \in hits : \A y \in hits : y <= x

\* only the first loop: every edge of g has its image in other
isIsomorphicTo_ImagesOnly(g, other, permutation) ==
  LET n == getVertexCount(g)
  IN IF getVertexCount(other) # n THEN FALSE
     ELSE IF Len(permutation) # n THEN FALSE
     ELSE IF Cardinality(Range(permutation)) # n THEN FALSE
     ELSE \A x \in DOMAIN g.edgesList :
            LET permU == ArrGet(permutation, g.edgesList[x][1])
                permV == ArrGet(permutation, g.edgesList[x][2])
            IN permU # Undefined /\ permV # Undefined /\ hasEdge(other, permU, permV)

\* only the second loop: every edge of other has its preimage in g
isIsomorphicTo_PreimagesOnly(g, other, permutation) ==
  LET n == getVertexCount(g)
  IN IF getVertexCount(other) # n THEN FALSE
     ELSE IF Len(permutation) # n THEN FALSE
     ELSE IF Cardinality(Range(permutation)) # n THEN FALSE
     ELSE \A x \in DOMAIN other.edgesList :
            LET origU == InvGet(permutation, other.edgesList[x][1])
                origV == InvGet(permutation, other.edgesList[x][2])
            IN origU # Undefined /\ origV # Undefined /\ hasEdge(g, origU, origV)

isIsomorphicTo(g, other, permutation) ==
  LET n == getVertexCount(g)
  IN IF getVertexCount(other) # n THEN FALSE
     ELSE IF Len(permutation) # n THEN FALSE
     ELSE IF Cardinality(Range(permutation)) # n THEN FALSE
     ELSE /\ \A x \in DOMAIN g.edgesList :
               LET permU == ArrGet(permutation, g.edgesList[x][1])
                   permV == ArrGet(permutation, g.edgesList[x][2])
               IN permU # Undefined /\ permV # Undefined /\ hasEdge(other, permU, permV)
          /\ \A x \in DOMAIN other.edgesList :
               LET origU == InvGet(permutation, other.edgesList[x][1])
                   origV == InvGet(permutation, other.edgesList[x][2])
               IN origU # Undefined /\ origV # Undefined /\ hasEdge(g, origU, origV)

-----------------------------------------------------------------------------
(* Hamiltonian-cycle validator *)

\* the edge loop stops before the closing pair (cycle[n-1], cycle[0])
isValidHamiltonianCycle_OpenPath(cycle, g) ==
  LET n == getVertexCount(g)
  IN IF Len(cycle) # n THEN FALSE
     ELSE IF \E x \in DOMAIN cycle : cycle[x] < 0 \/ cycle[x] >= n THEN FALSE
     ELSE IF \E x, y \in DOMAIN cycle : x < y /\ cycle[x] = cycle[y] THEN FALSE
     ELSE \A x \in 0..(n - 2) :
            hasEdge(g, ArrGet(cycle, x), ArrGet(cycle, (x + 1) % n))

\* the edges are followed in the listed direction only: cycle[x] < cycle[x+1] on
\* every pair but the closing one
isValidHamiltonianCycle_Directed(cycle, g) ==
  LET n == getVertexCount(g)
  IN IF Len(cycle) # n THEN FALSE
     ELSE IF \E x \in DOMAIN cycle : cycle[x] < 0 \/ cycle[x] >= n THEN FALSE
     ELSE IF \E x, y \in DOMAIN cycle : x < y /\ cycle[x] = cycle[y] THEN FALSE
     ELSE \A x \in 0..(n - 1) :
            /\ hasEdge(g, ArrGet(cycle, x), ArrGet(cycle, (x + 1) % n))
            /\ x < n - 1 => ArrGet(cycle, x) < ArrGet(cycle, x + 1)

isValidHamiltonianCycle(cycle, g) ==
  LET n == getVertexCount(g)
  IN IF Len(cycle) # n THEN FALSE
     ELSE IF \E x \in DOMAIN cycle : cycle[x] < 0 \/ cycle[x] >= n THEN FALSE
     ELSE IF \E x, y \in DOMAIN cycle : x < y /\ cycle[x] = cycle[y] THEN FALSE
     ELSE \A x \in 0..(n - 1) :
            hasEdge(g, ArrGet(cycle, x), ArrGet(cycle, (x + 1) % n))

-----------------------------------------------------------------------------
(* Commitment scheme *)

\* a digest with collisions: it depends on the last character hashed only
sha256_LastCharacter(str) == <<"#">> \o SubSeq(str, Len(str), Len(str))

\* SHA-256 taken as collision-free: an injective function of the hashed string
sha256(str) == <<"#">> \o str

createCommitment(data, salt) == [hash |-> sha256(data \o salt), salt |-> salt]

openCommitment(commitment, data) == sha256(data \o commitment.salt) = commitment.hash

EdgeLess(a, b) == IF a[1] # b[1] THEN a[1] < b[1] ELSE a[2] < b[2]

\* Array.prototype.sort with the comparator of serializeGraph (stable)
RECURSIVE SortEdges(_)
SortEdges(s) ==
  IF s = <<>> THEN <<>>
  ELSE LET rest == SortEdges(Tail(s))
           h == Head(s)
       IN SelectSeq(rest, LAMBDA e : EdgeLess(e, h)) \o <<h>>
            \o SelectSeq(rest, LAMBDA e : ~EdgeLess(e, h))

EdgeStr(e) == ToDecimal(e[1]) \o <<",">> \o ToDecimal(e[2])

RECURSIVE JoinEdges(_)
JoinEdges(s) ==
  IF s = <<>> THEN <<>>
  ELSE IF Len(s) = 1 THEN EdgeStr(s[1])
  ELSE EdgeStr(s[1]) \o <<"|">> \o JoinEdges(Tail(s))

NormalizeEdge(e) == IF e[1] < e[2] THEN e ELSE <<e[2], e[1]>>

serializeGraph(g) ==
  JoinEdges(SortEdges([x \in DOMAIN g.edgesList |-> NormalizeEdge(g.edgesList[x])]))

commitToGraph(g, permutation, salt) == createCommitment(serializeGraph(g), salt)

-----------------------------------------------------------------------------
(* Permutation utilities *)

\* permutation[i] = permutation[j] without permutation[j] = temp
SwapAt_Overwrite(perm, a, b) ==
  [x \in DOMAIN perm |-> IF x = a + 1 THEN perm[b + 1] ELSE perm[x]]

SwapAt(perm, a, b) ==
  [x \in DOMAIN perm |-> IF x = a + 1 THEN perm[b + 1]
                         ELSE IF x = b + 1 THEN perm[a + 1] ELSE perm[x]]

\* the Fisher-Yates loop from index idx down to 1; draws[x] is the 32-bit value read at index x
RECURSIVE Shuffle(_, _, _)
Shuffle(perm, idx, draws) ==
  IF idx <= 0 THEN perm
  ELSE Shuffle(SwapAt(perm, idx, draws[idx] % (idx + 1)), idx - 1, draws)

generateRandomPermutation(n, draws) == Shuffle([x \in 1..n |-> x - 1], n - 1, draws)

\* the random values read by one call: one per index n-1 .. 1, one representative per residue
RandomDraws(n) == {d \in [1..(n - 1) -> 0..(n - 1)] : \A x \in 1..(n - 1) : d[x] <= x}

applyPermutationToGraph(g, perm) ==
  LET n == getVertexCount(g)
  IN IF Len(perm) # n
       THEN [EmptyGraph(0) EXCEPT !.error = "Permutation length does not match graph size"]
     ELSE IF Cardinality(Range(perm)) # n
       THEN [EmptyGraph(0) EXCEPT !.error = "Invalid permutation: not a bijection"]
     ELSE IF \E x \in DOMAIN g.edgesList :
               \/ ArrGet(perm, g.edgesList[x][1]) = Undefined
               \/ ArrGet(perm, g.edgesList[x][2]) = Undefined
       THEN [EmptyGraph(0) EXCEPT !.error = "Invalid permutation index for edge"]
     ELSE NewGraph(n, [x \in DOMAIN g.edgesList |->
                         <<ArrGet(perm, g.edgesList[x][1]), ArrGet(perm, g.edgesList[x][2])>>])

applyPermutationToCycle_NotApplied(cycle, perm) == cycle

\* the mapped cycle; <<Undefined>> stands for the exception thrown on a vertex outside perm
applyPermutationToCycle(cycle, perm) ==
  IF \E x \in DOMAIN cycle : ArrGet(perm, cycle[x]) = Undefined
    THEN <<Undefined>>
  ELSE [x \in DOMAIN cycle |-> ArrGet(perm, cycle[x])]

\* inv[x] = perm[x] in place of inv[perm[x]] = x
inversePermutation_Forward(perm) ==
  IF \E x \in DOMAIN perm : perm[x] < 0 \/ perm[x] >= Len(perm)
    THEN [error |-> "Invalid permutation value", inv |-> <<>>]
  ELSE [error |-> NoError, inv |-> perm]

\* inversePermutation of utils/permutation.ts: error # "" stands for the exception;
\* an index no perm[x] names stays a hole of the new Array (Undefined)
inversePermutation(perm) ==
  IF \E x \in DOMAIN perm : perm[x] < 0 \/ perm[x] >= Len(perm)
    THEN [error |-> "Invalid permutation value", inv |-> <<>>]
  ELSE [error |-> NoError, inv |-> [y \in 1..Len(perm) |-> InvGet(perm, y - 1)]]

\* an in-place relabelling: cycle[x] = perm[cycle[x]]
CycleAfterApply_InPlace(cycle, perm) == applyPermutationToCycle(cycle, perm)

\* the array applyPermutationToCycle was called on, after the call: Array.map
\* returns a new array and writes nothing to the one it reads
CycleAfterApply(cycle, perm) == cycle

\* the graph applyPermutationToGraph was called on, after the call: getEdges hands
\* out a copy of edgesList, the permuted pairs are pushed onto a new array and go
\* into a new Graph
GraphAfterApply(g, perm) == g

\* a Verifier that keeps the graph it reconstructed in place of the original
GraphAfterVerifyRound_KeepsPermuted(g, proofRound) ==
  NewGraph(getVertexCount(g), proofRound.response.permutedGraphEdges)

\* originalGraph after verifyRound(proofRound, originalGraph): getVertexCount and
\* isIsomorphicTo read the adjacency list and the edge list, and write neither
GraphAfterVerifyRound(g, proofRound) == g

-----------------------------------------------------------------------------
(* Prover *)

CycleToEdges_NotNormalized(permutedCycle) ==
  [x \in DOMAIN permutedCycle |->
     <<permutedCycle[x], ArrGet(permutedCycle, x % Len(permutedCycle))>>]

\* the edges (current, next) of the permuted cycle, smaller endpoint first
CycleToEdges(permutedCycle) ==
  [x \in DOMAIN permutedCycle |->
     LET current == permutedCycle[x]
         next == ArrGet(permutedCycle, x % Len(permutedCycle))
     IN IF current < next THEN <<current, next>> ELSE <<next, current>>]

respondToChallenge_WithPermutation(cycle, challenge, permutedGraph, permutation) ==
  IF challenge = 0
    THEN [type |-> 0,
          permutation |-> permutation,
          permutedGraphEdges |-> getEdges(permutedGraph)]
  ELSE [type |-> 1,
        permutation |-> permutation,
        permutedGraphEdges |-> getEdges(permutedGraph),
        cycleEdges |-> CycleToEdges(applyPermutationToCycle(cycle, permutation))]

\* a response that reveals the edges of G' in canonical order
respondToChallenge_SortedEdges(cycle, challenge, permutedGraph, permutation) ==
  IF challenge = 0
    THEN [type |-> 0,
          permutation |-> permutation,
          permutedGraphEdges |-> SortEdges(getEdges(permutedGraph))]
  ELSE [type |-> 1,
        permutedGraphEdges |-> SortEdges(getEdges(permutedGraph)),
        cycleEdges |-> CycleToEdges(applyPermutationToCycle(cycle, permutation))]

\* Prover.respondToChallenge (the exception of applyPermutationToCycle: RespondThrows)
respondToChallenge(cycle, challenge, permutedGraph, permutation) ==
  IF challenge = 0
    THEN [type |-> 0,
          permutation |-> permutation,
          permutedGraphEdges |-> getEdges(permutedGraph)]
  ELSE [type |-> 1,
        permutedGraphEdges |-> getEdges(permutedGraph),
        cycleEdges |-> CycleToEdges(applyPermutationToCycle(cycle, permutation))]

RespondThrows(cycle, challenge, permutation) ==
  challenge # 0 /\ applyPermutationToCycle(cycle, permutation) = <<Undefined>>

-----------------------------------------------------------------------------
(* Verifier *)

\* the errorType strings of verifier.ts (Russian in the source)
InvalidPermutation == "InvalidPermutation"
CommitmentMismatch == "CommitmentMismatch"
IsomorphismMismatch == "IsomorphismMismatch"
WrongCycleEdgeCount == "WrongCycleEdgeCount"
EdgeOutOfRange == "EdgeOutOfRange"
SelfLoop == "SelfLoop"
EdgeNotInCommittedGraph == "EdgeNotInCommittedGraph"
EdgesDoNotFormCycle == "EdgesDoNotFormCycle"
InvalidCycle == "InvalidCycle"
RoundCountMismatch == "RoundCountMismatch"
RoundMissing == "RoundMissing"

\* outcomes of verifyRound: a returned {valid, errorType}, or an exception (threw # "")
Accept == [valid |-> TRUE, errorType |-> "", threw |-> NoError]
Reject(errorType) == [valid |-> FALSE, errorType |-> errorType, threw |-> NoError]
Throw(message) == [valid |-> FALSE, errorType |-> "", threw |-> message]

\* a reduction that favours 0: (randomByte % 3) % 2
generateChallenge_Biased(randomByte) == (randomByte % 3) % 2

\* Verifier.generateChallenge, given the byte crypto.randomBytes(1) returned
generateChallenge(randomByte) == randomByte % 2

\* without the "seen" set
isValidPermutation_RepeatsAllowed(permutation, n) ==
  IF Len(permutation) # n THEN FALSE
  ELSE ~\E x \in DOMAIN permutation : permutation[x] < 0 \/ permutation[x] >= n

isValidPermutation(permutation, n) ==
  IF Len(permutation) # n THEN FALSE
  ELSE IF \E x \in DOMAIN permutation : permutation[x] < 0 \/ permutation[x] >= n THEN FALSE
  ELSE IF \E x, y \in DOMAIN permutation : x < y /\ permutation[x] = permutation[y] THEN FALSE
  ELSE Cardinality(Range(permutation)) = n

\* a reconstruction that leaves out the pairs the Graph constructor refuses
reconstructGraphFromEdges_SkipsInvalid(edges, vertexCount) ==
  NewGraph(vertexCount,
           SelectSeq(edges, LAMBDA e : /\ Endpoint(e, 1) # Endpoint(e, 2)
                                       /\ Endpoint(e, 1) \in 0..(vertexCount - 1)
                                       /\ Endpoint(e, 2) \in 0..(vertexCount - 1)))

reconstructGraphFromEdges(edges, vertexCount) == NewGraph(vertexCount, edges)

\* the Verifier's private serializeGraph
VerifierSerializeGraph(g) ==
  JoinEdges(SortEdges([x \in DOMAIN g.edgesList |-> NormalizeEdge(g.edgesList[x])]))

\* an array push in place of Set.add
SetAdd_KeepsDuplicates(set, v) == Append(set, v)

\* Set.add on an insertion-ordered Set
SetAdd(set, v) == IF v \in Range(set) THEN set ELSE Append(set, v)

RECURSIVE AddCycleEdges(_, _)
AddCycleEdges(adjacency, edges) ==
  IF edges = <<>> THEN adjacency
  ELSE LET u == Head(edges)[1]
           v == Head(edges)[2]
           a1 == IF u \in DOMAIN adjacency
                   THEN [adjacency EXCEPT ![u] = SetAdd(@, v)] ELSE adjacency
           a2 == IF v \in DOMAIN a1 THEN [a1 EXCEPT ![v] = SetAdd(@, u)] ELSE a1
       IN AddCycleEdges(a2, Tail(edges))

\* the tracing loop of edgesToCycle; <<>> stands for "next === undefined"
RECURSIVE TraceCycle(_, _, _)
TraceCycle(adjacency, cycle, stepsLeft) ==
  IF stepsLeft <= 0 THEN cycle
  ELSE LET current == cycle[Len(cycle)]
           neighbors == IF current \in DOMAIN adjacency THEN adjacency[current] ELSE <<>>
           unvisited == SelectSeq(neighbors, LAMBDA v : v \notin Range(cycle))
       IN IF unvisited = <<>> THEN <<>>
          ELSE TraceCycle(adjacency, Append(cycle, unvisited[1]), stepsLeft - 1)

NullCycle == [null |-> TRUE, cycle |-> <<>>]

edgesToCycle(edges, n) ==
  IF Len(edges) # n THEN NullCycle
  ELSE LET adjacency == AddCycleEdges([x \in 0..(n - 1) |-> <<>>], edges)
       IN IF \E x \in 0..(n - 1) : Len(adjacency[x]) # 2 THEN NullCycle
          ELSE LET cycle == TraceCycle(adjacency, <<0>>, n - 1)
               IN IF cycle = <<>> THEN NullCycle
                  ELSE IF 0 \notin DOMAIN adjacency
                          \/ cycle[Len(cycle)] \notin Range(adjacency[0]) THEN NullCycle
                  ELSE [null |-> FALSE, cycle |-> cycle]

verifyRound(proofRound, originalGraph) ==
  LET commitment == proofRound.commitment
      response == proofRound.response
      n == getVertexCount(originalGraph)
  IN IF response.type = 0
       THEN IF ~isValidPermutation(response.permutation, n) THEN Reject(InvalidPermutation)
            ELSE LET permutedGraph == reconstructGraphFromEdges(response.permutedGraphEdges, n)
                 IN IF permutedGraph.error # NoError THEN Throw(permutedGraph.error)
                    ELSE IF ~openCommitment(commitment, VerifierSerializeGraph(permutedGraph))
                      THEN Reject(CommitmentMismatch)
                    ELSE IF ~isIsomorphicTo(originalGraph, permutedGraph, response.permutation)
                      THEN Reject(IsomorphismMismatch)
                    ELSE Accept
     ELSE LET permutedGraph == reconstructGraphFromEdges(response.permutedGraphEdges, n)
              cycleEdges == response.cycleEdges
          IN IF permutedGraph.error # NoError THEN Throw(permutedGraph.error)
             ELSE IF ~openCommitment(commitment, VerifierSerializeGraph(permutedGraph))
               THEN Reject(CommitmentMismatch)
             ELSE IF Len(cycleEdges) # n THEN Reject(WrongCycleEdgeCount)
             ELSE IF \E x \in DOMAIN cycleEdges :
                       LET u == cycleEdges[x][1]
                           v == cycleEdges[x][2]
                           first == \A y \in 1..(x - 1) :
                                      /\ cycleEdges[y][1] >= 0 /\ cycleEdges[y][1] < n
                                      /\ cycleEdges[y][2] >= 0 /\ cycleEdges[y][2] < n
                                      /\ cycleEdges[y][1] # cycleEdges[y][2]
                       IN first /\ (u < 0 \/ u >= n \/ v < 0 \/ v >= n)
               THEN Reject(EdgeOutOfRange)
             ELSE IF \E x \in DOMAIN cycleEdges : cycleEdges[x][1] = cycleEdges[x][2]
               THEN Reject(SelfLoop)
             ELSE IF \E x \in DOMAIN cycleEdges :
                       ~hasEdge(permutedGraph, cycleEdges[x][1], cycleEdges[x][2])
               THEN Reject(EdgeNotInCommittedGraph)
             ELSE LET cycle == edgesToCycle(cycleEdges, n)
                  IN IF cycle.null THEN Reject(EdgesDoNotFormCycle)
                     ELSE IF ~isValidHamiltonianCycle(cycle.cycle, permutedGraph)
                       THEN Reject(InvalidCycle)
                     ELSE Accept

-----------------------------------------------------------------------------
(* The program: main builds G, validates the cycle, constructs the Prover and *)
(* the Verifier, has the Prover generate a proof and the Verifier verify it.  *)

\* well-formed edges of an input file on n vertices, either orientation
InputPairs(n) == {<<u, v>> : u \in 0..(n - 1), v \in (0..(n - 1))} \ {<<u, u>> : u \in 0..(n - 1)}

\* Scenario A of the specification: the 5-cycle graph with the cycle 0 1 2 3 4
ScenarioA == [vertexCount |-> 5,
              edges |-> <<<<0, 1>>, <<1, 2>>, <<2, 3>>, <<3, 4>>, <<4, 0>>>>,
              cycles |-> {<<0, 1, 2, 3, 4>>, <<0, 1, 2, 4, 3>>}]

GraphInputs ==
  UNION {{[vertexCount |-> n, edges |-> e, cycles |-> SeqsUpTo(0..(n - 1), n)] :
            e \in SeqsUpTo(InputPairs(n), MaxEdges)} : n \in 0..MaxN}

HexChars == {"a", "b"}
Salts == SeqsOfLen(HexChars, SaltLen)

NoLocal == [live |-> FALSE, permutedGraph |-> EmptyGraph(0), permutation |-> <<>>,
            commitment |-> [hash |-> <<>>, salt |-> <<>>]]
NoProof == [rounds |-> <<>>, k |-> -1]
Pending == [pending |-> TRUE]
NoRound == [missing |-> TRUE]

InitRest ==
  /\ pc = "main"
  /\ k = 0
  /\ challenges = <<>>
  /\ i = 0
  /\ rounds = <<>>
  /\ local = NoLocal
  /\ proof = NoProof
  /\ vi = 0
  /\ opened = <<>>
  /\ result = Pending
  /\ advRound = NoRound
  /\ advOutcome = Pending
  /\ accepted = {}
  /\ tampers = 0

Init ==
  /\ \E input \in GraphInputs \cup {ScenarioA} :
       /\ NewGraph(input.vertexCount, input.edges).error = NoError
       /\ graph = NewGraph(input.vertexCount, input.edges)
       /\ hamiltonianCycle \in input.cycles
  /\ InitRest

\* main: isValidHamiltonianCycle(hamiltonianCycle, graph), return if invalid, else new Prover
ValidateCycle ==
  /\ pc = "main"
  /\ pc' = IF isValidHamiltonianCycle(hamiltonianCycle, graph) THEN "ready" ELSE "invalidCycle"
  /\ UNCHANGED <<graph, hamiltonianCycle, k, challenges, i, rounds, local, proof, vi,
                 opened, result, advRound, advOutcome, accepted, tampers>>

\* generateProof's guard: challenges.length !== k
ChallengesMismatch_OnlyShort(kk, chs) == Len(chs) < kk

ChallengesMismatch(kk, chs) == Len(chs) # kk

\* Prover.generateProof(kk, chs): the length check and the set-up of the loop
CallGenerateProof(kk, chs) ==
  /\ pc = "ready"
  /\ kk <= (IF getVertexCount(graph) > MaxN THEN ScenarioK ELSE MaxK)
  /\ k' = kk
  /\ challenges' = chs
  /\ i' = 0
  /\ rounds' = <<>>
  /\ IF ChallengesMismatch(kk, chs)
       THEN /\ pc' = "threw"
            /\ result' = [threw |-> "Challenges array length does not match k", by |-> "generateProof"]
            /\ proof' = proof
       ELSE /\ pc' = IF kk = 0 THEN "proved" ELSE "commit"
            /\ result' = result
            /\ proof' = IF kk = 0 THEN [rounds |-> <<>>, k |-> kk] ELSE proof
  /\ UNCHANGED <<graph, hamiltonianCycle, local, vi, opened, advRound, advOutcome,
                 accepted, tampers>>

\* Prover.generateCommitment, called at the top of iteration i
GenerateCommitment(draws, salt) ==
  /\ pc = "commit"
  /\ LET n == getVertexCount(graph)
         permutation == generateRandomPermutation(n, draws)
         permutedGraph == applyPermutationToGraph(graph, permutation)
     IN /\ local' = [live |-> TRUE,
                     permutedGraph |-> permutedGraph,
                     permutation |-> permutation,
                     commitment |-> commitToGraph(permutedGraph, permutation, salt)]
        /\ pc' = IF permutedGraph.error # NoError THEN "threw" ELSE "respond"
        /\ result' = IF permutedGraph.error # NoError
                       THEN [threw |-> permutedGraph.error, by |-> "generateProof"] ELSE result
        /\ graph' = GraphAfterApply(graph, permutation)
  /\ UNCHANGED <<hamiltonianCycle, k, challenges, i, rounds, proof, vi, opened,
                 advRound, advOutcome, accepted, tampers>>

\* the round's secrets kept after the round is pushed
LocalsAfterRound_Retained(locals) == locals

\* permutedGraph, permutation and commitment are constants of the loop body of
\* generateProof: nothing refers to them once the iteration ends, and the Prover
\* has no field to keep them in
LocalsAfterRound(locals) == NoLocal

\* the rest of iteration i: challenges[i] is read, respondToChallenge is called, the
\* round is pushed; after the last iteration generateProof returns {rounds, k}
RespondToChallenge ==
  /\ pc = "respond"
  /\ LET challenge == ArrGet(challenges, i)
     IN IF challenge = Undefined
          THEN /\ pc' = "threw"
               /\ result' = [threw |-> "Challenge is undefined", by |-> "generateProof"]
               /\ UNCHANGED <<rounds, i, proof>>
        ELSE IF RespondThrows(hamiltonianCycle, challenge, local.permutation)
          THEN /\ pc' = "threw"
               /\ result' = [threw |-> "Invalid permutation index for vertex", by |-> "generateProof"]
               /\ UNCHANGED <<rounds, i, proof>>
        ELSE LET response == respondToChallenge(hamiltonianCycle, challenge,
                                                local.permutedGraph, local.permutation)
                 pushed == Append(rounds, [commitment |-> local.commitment,
                                           response |-> response])
             IN /\ rounds' = pushed
                /\ i' = i + 1
                /\ pc' = IF i + 1 < k THEN "commit" ELSE "proved"
                /\ proof' = IF i + 1 < k THEN proof ELSE [rounds |-> pushed, k |-> k]
                /\ result' = result
  /\ hamiltonianCycle' = IF ArrGet(challenges, i) = 1
                           THEN CycleAfterApply(hamiltonianCycle, local.permutation)
                         ELSE hamiltonianCycle
  /\ local' = LocalsAfterRound(local)
  /\ UNCHANGED <<graph, k, challenges, vi, opened, advRound, advOutcome, accepted, tampers>>

RoundCountDiffers_OnlyFewer(p) == Len(p.rounds) < p.k

\* verifyProof's guard: proof.rounds.length !== proof.k
RoundCountDiffers(p) == Len(p.rounds) # p.k

FailedRoundNumber_ZeroBased(idx) == idx

\* failedRound: i + 1
FailedRoundNumber(idx) == idx + 1

\* Verifier.verifyProof(proof, graph): the round-count check
\* a verifyProof that reports a round-count mismatch as a failure of the first round
CallVerifyProof_MismatchAsFirstRound ==
  /\ pc = "proved"
  /\ vi' = 0
  /\ IF RoundCountDiffers(proof)
       THEN /\ result' = [valid |-> FALSE, failedRound |-> 1,
                          errorType |-> RoundCountMismatch]
            /\ pc' = "done"
       ELSE IF Len(proof.rounds) = 0
         THEN /\ result' = [valid |-> TRUE]
              /\ pc' = "done"
       ELSE /\ result' = result
            /\ pc' = "verifying"
  /\ UNCHANGED <<graph, hamiltonianCycle, k, challenges, i, rounds, local, proof, opened,
                 advRound, advOutcome, accepted, tampers>>

CallVerifyProof ==
  /\ pc = "proved"
  /\ vi' = 0
  /\ IF RoundCountDiffers(proof)
       THEN /\ result' = [valid |-> FALSE, failedRound |-> 0,
                          errorType |-> RoundCountMismatch]
            /\ pc' = "done"
       ELSE IF Len(proof.rounds) = 0
         THEN /\ result' = [valid |-> TRUE]
              /\ pc' = "done"
       ELSE /\ result' = result
            /\ pc' = "verifying"
  /\ UNCHANGED <<graph, hamiltonianCycle, k, challenges, i, rounds, local, proof, opened,
                 advRound, advOutcome, accepted, tampers>>

\* one iteration of verifyProof's loop
VerifyNextRound ==
  /\ pc = "verifying"
  /\ LET round == proof.rounds[vi + 1]
     IN IF round = NoRound
          THEN /\ result' = [valid |-> FALSE, failedRound |-> FailedRoundNumber(vi),
                             errorType |-> RoundMissing]
               /\ pc' = "done"
               /\ UNCHANGED <<vi, opened>>
        ELSE LET outcome == verifyRound(round, graph)
             IN /\ opened' = Append(opened, vi + 1)
                /\ IF outcome.threw # NoError
                     THEN /\ result' = [threw |-> outcome.threw, by |-> "verifyProof"]
                          /\ pc' = "threw"
                          /\ vi' = vi
                   ELSE IF ~outcome.valid
                     THEN /\ result' = [valid |-> FALSE,
                                        failedRound |-> FailedRoundNumber(vi),
                                        errorType |-> outcome.errorType]
                          /\ pc' = "done"
                          /\ vi' = vi
                   ELSE /\ vi' = vi + 1
                        /\ pc' = IF vi + 1 < Len(proof.rounds) THEN "verifying" ELSE "done"
                        /\ result' = IF vi + 1 < Len(proof.rounds)
                                       THEN result ELSE [valid |-> TRUE]
  /\ graph' = IF proof.rounds[vi + 1] = NoRound THEN graph
              ELSE GraphAfterVerifyRound(graph, proof.rounds[vi + 1])
  /\ UNCHANGED <<hamiltonianCycle, k, challenges, i, rounds, local, proof,
                 advRound, advOutcome, accepted, tampers>>

ChallengeSeqs == SeqsUpTo({0, 1}, MaxK)

Next ==
  \/ ValidateCycle
  \/ \E kk \in 0..MaxK, chs \in ChallengeSeqs : CallGenerateProof(kk, chs)
  \/ \E draws \in RandomDraws(getVertexCount(graph)), salt \in Salts :
       GenerateCommitment(draws, salt)
  \/ RespondToChallenge
  \/ CallVerifyProof
  \/ VerifyNextRound

Spec == Init /\ [][Next]_vars

-----------------------------------------------------------------------------
(* Claims about the protocol run of Spec *)

VerifyReturned == pc \in {"done", "threw"} /\ Len(challenges) = k

\* C1: for every graph G, every cycle isValidHamiltonianCycle accepts, every k and
\* every challenge sequence of length k, verifyProof of the generated proof returns
\* valid = true and nothing throws. The code rejects the honest proof on the graphs
\* with 0 and 2 vertices as soon as a challenge is 1: the validator accepts the
\* cycles <<>> and <<0, 1>>, edgesToCycle demands degree 2 at every vertex and a
\* vertex 0.
C1_Completeness == VerifyReturned => result = [valid |-> TRUE]

\* the extent of that divergence: on a graph with at least 3 vertices the honest
\* proof is always accepted; on the graphs with 0 or 2 vertices it is accepted
\* exactly when no challenge is 1, and otherwise rejected at the first challenge-1
\* round because its edges do not form a cycle.
FirstChallengeOne == CHOOSE x \in 1..Len(challenges) :
                       challenges[x] = 1 /\ \A y \in 1..(x - 1) : challenges[y] = 0

C1_CompletenessFrom3 ==
  VerifyReturned =>
    IF getVertexCount(graph) >= 3 \/ 1 \notin Range(challenges)
      THEN result = [valid |-> TRUE]
    ELSE result = [valid |-> FALSE, failedRound |-> FirstChallengeOne,
                   errorType |-> EdgesDoNotFormCycle]

C1_Witness ==
  /\ pc = "done"
  /\ getVertexCount(graph) >= 3
  /\ k = MaxK
  /\ Range(challenges) = {0, 1}
  /\ opened = [x \in 1..k |-> x]
  /\ result = [valid |-> TRUE]

\* the honest proof for the one-edge graph on two vertices and the cycle <<0, 1>>,
\* rejected at a challenge-1 round
C1_WitnessTwoVertices ==
  /\ pc = "done"
  /\ getVertexCount(graph) = 2
  /\ hamiltonianCycle = <<0, 1>>
  /\ challenges = <<1>>
  /\ result = [valid |-> FALSE, failedRound |-> 1, errorType |-> EdgesDoNotFormCycle]

C1_WitnessScenarioA ==
  /\ pc = "done"
  /\ getVertexCount(graph) = 5
  /\ challenges = <<1>>
  /\ result = [valid |-> TRUE]

\* C5: generateProof(k, challenges) throws and returns no proof when
\* challenges.length # k; otherwise it returns a proof with proof.k = k and exactly k
\* rounds, round x answering challenges[x] with a response of that type.
C5_GenerateProof ==
  /\ (pc \notin {"main", "invalidCycle", "ready"} /\ Len(challenges) # k) =>
       /\ pc = "threw"
       /\ result = [threw |-> "Challenges array length does not match k",
                    by |-> "generateProof"]
       /\ proof = NoProof
  /\ (pc \notin {"main", "invalidCycle", "ready"} /\ Len(challenges) = k) =>
       /\ "by" \in DOMAIN result => result.by # "generateProof"
       /\ Len(rounds) = (IF pc \in {"commit", "respond"} THEN i ELSE k)
       /\ \A x \in 1..Len(rounds) : rounds[x].response.type = challenges[x]
       /\ IF pc \in {"commit", "respond"} THEN proof = NoProof
          ELSE proof = [rounds |-> rounds, k |-> k]

C5_Witness ==
  /\ pc = "threw"
  /\ Len(challenges) # k
  /\ proof = NoProof

C5_WitnessReturned ==
  /\ pc = "proved"
  /\ proof.k = MaxK
  /\ Len(proof.rounds) = MaxK
  /\ challenges = <<1, 0>>

\* C9: in every proof generateProof produces, a round answered for challenge 1 has no
\* permutation field; a permutation field occurs only in rounds whose challenge is 0.
C9_PermutationOnlyForChallenge0 ==
  /\ \A x \in 1..Len(rounds) :
       /\ challenges[x] = 1 =>
            DOMAIN rounds[x].response = {"type", "permutedGraphEdges", "cycleEdges"}
       /\ "permutation" \in DOMAIN rounds[x].response => challenges[x] = 0
  /\ pc \in {"proved", "verifying", "done"} => proof.rounds = rounds

C9_Witness ==
  /\ pc = "proved"
  /\ getVertexCount(graph) >= 3
  /\ Len(proof.rounds) = MaxK
  /\ challenges = <<0, 1>>
  /\ "permutation" \in DOMAIN proof.rounds[1].response
  /\ "permutation" \notin DOMAIN proof.rounds[2].response

\* C10: a response produced for challenge 1 carries the full edge list of G' = pi(G),
\* which opens the round's commitment, and exactly n cycle edges, edge x being
\* (pi(cycle[x]), pi(cycle[(x+1) mod n])) with the smaller endpoint first.
MinMax(a, b) == IF a < b THEN <<a, b>> ELSE <<b, a>>

-----------------------------------------------------------------------------
(* SpecVerify: verifyProof on the proofs a cheating prover can hand over.     *)
(* The proof is any sequence of rounds of a pool, with any declared k.        *)

Triangle == <<<<0, 1>>, <<0, 2>>, <<1, 2>>>>
Path == <<<<0, 1>>, <<1, 2>>>>

PoolGraphs == {NewGraph(3, Triangle), NewGraph(3, Path)}
\* revealed G' edge lists: two graphs, a list whose second pair is a self-loop and a
\* list whose second pair names the vertex 3 of a 3-vertex graph
PoolLists == {Triangle, Path, <<<<0, 1>>, <<0, 0>>>>, <<<<0, 1>>, <<1, 3>>>>}
\* revealed permutations: two bijections and a repeated value
PoolPermutations == {<<0, 1, 2>>, <<1, 0, 2>>, <<0, 0, 1>>}
\* revealed cycle edges: a 3-cycle, a repeated edge, too few edges
PoolCycleEdges == {<<<<0, 1>>, <<1, 2>>, <<0, 2>>>>, <<<<0, 1>>, <<0, 1>>, <<1, 2>>>>, Path}
PoolCommitments ==
  {createCommitment(serializeGraph(NewGraph(3, edges)), <<"a">>) : edges \in {Triangle, Path}}

PoolRounds ==
  {[commitment |-> c,
    response |-> [type |-> 0, permutation |-> p, permutedGraphEdges |-> e]] :
     c \in PoolCommitments, p \in PoolPermutations, e \in PoolLists}
  \cup
  {[commitment |-> c,
    response |-> [type |-> 1, permutedGraphEdges |-> e, cycleEdges |-> ce]] :
     c \in PoolCommitments, e \in PoolLists, ce \in PoolCycleEdges}
  \cup {NoRound}

InitVerify ==
  /\ graph \in PoolGraphs
  /\ hamiltonianCycle = <<>>
  /\ pc = "proved"
  /\ k = 0
  /\ challenges = <<>>
  /\ i = 0
  /\ rounds = <<>>
  /\ local = NoLocal
  /\ \E rs \in SeqsUpTo(PoolRounds, MaxK), kk \in 0..(MaxK + 1) : proof = [rounds |-> rs, k |-> kk]
  /\ vi = 0
  /\ opened = <<>>
  /\ result = Pending
  /\ advRound = NoRound
  /\ advOutcome = Pending
  /\ accepted = {}
  /\ tampers = 0

NextVerify == CallVerifyProof \/ VerifyNextRound

SpecVerify == InitVerify /\ [][NextVerify]_vars

\* what the loop of verifyProof gets for the round at position x (1-based)
RoundOutcome(x) ==
  IF proof.rounds[x] = NoRound THEN Reject(RoundMissing)
  ELSE verifyRound(proof.rounds[x], graph)

NotAccepted == {x \in 1..Len(proof.rounds) : RoundOutcome(x) # Accept}
FirstNotAccepted == CHOOSE x \in NotAccepted : \A y \in NotAccepted : x <= y

\* C3: verifyProof verifies the rounds in order 1..k; it returns valid = true only if
\* verifyRound accepts every round, and on a rejection it returns valid = false with
\* failedRound the first rejected round and that round's reason, and verifies no
\* later round.
C3_FailFast ==
  /\ opened = [x \in 1..Len(opened) |-> x]
  /\ (pc = "done" /\ result = [valid |-> TRUE]) =>
       /\ NotAccepted = {}
       /\ Len(opened) = Len(proof.rounds)
  /\ (pc = "done" /\ Len(proof.rounds) = proof.k /\ NotAccepted = {}) =>
       result = [valid |-> TRUE]
  /\ (pc = "done" /\ result # [valid |-> TRUE] /\ result.failedRound # 0) =>
       /\ NotAccepted # {}
       /\ result = [valid |-> FALSE, failedRound |-> FirstNotAccepted,
                    errorType |-> RoundOutcome(FirstNotAccepted).errorType]
       /\ \A x \in Range(opened) : x <= FirstNotAccepted

C3_Witness ==
  /\ pc = "done"
  /\ Len(proof.rounds) = 2
  /\ NotAccepted = {1, 2}
  /\ result.failedRound = 1
  /\ opened = <<1>>

C3_WitnessSecond ==
  /\ pc = "done"
  /\ Len(proof.rounds) = 2
  /\ NotAccepted = {2}
  /\ result.failedRound = 2
  /\ opened = <<1, 2>>

\* C4: whenever proof.rounds.length differs from proof.k, verifyProof rejects with the
\* round-count reason before it verifies any round, even if every supplied round
\* would be accepted.
C4_RoundCountMismatch ==
  (pc # "proved" /\ Len(proof.rounds) # proof.k) =>
     /\ pc = "done"
     /\ result = [valid |-> FALSE, failedRound |-> 0, errorType |-> RoundCountMismatch]
     /\ opened = <<>>

C4_Witness ==
  /\ pc = "done"
  /\ Len(proof.rounds) = 2
  /\ proof.k = 1
  /\ NotAccepted = {}
  /\ result.errorType = RoundCountMismatch

-----------------------------------------------------------------------------
(* SpecPerm and SpecCycle: verifyRound on the rounds a cheating prover can    *)
(* compose, one response type each.                                           *)

NormPairs(n) == {e \in (0..(n - 1)) \X (0..(n - 1)) : e[1] < e[2]}

\* the duplicate-free edge lists in ascending order: one per edge set
AscendingLists(n, len) ==
  {s \in SeqsUpTo(NormPairs(n), len) : \A x \in 1..(Len(s) - 1) : EdgeLess(s[x], s[x + 1])}

AdvGraphs == UNION {{NewGraph(n, e) : e \in AscendingLists(n, MaxEdges)} : n \in 0..MaxN}

\* pairs a revealed list may hold: the edges on n vertices, one of them also reversed,
\* a self-loop and a pair with an endpoint outside [0,n)
AdvPairs(n) == NormPairs(n) \cup {<<1, 0>>, <<0, 0>>, <<0, n>>}

AdvLists(n) == SeqsUpTo(AdvPairs(n), MaxEdges)

\* revealed permutations: any sequence of at most n values, some outside [0,n)
AdvPermutations(n) == SeqsUpTo((-1)..n, n)

\* the commitments tried with a revealed list: the one made to that list (when it
\* is the edge list of a graph) and one made to the empty edge list
AdvCommitments(n, edges) ==
  {createCommitment(<<>>, <<"a">>)}
  \cup (IF NewGraph(n, edges).error = NoError
          THEN {createCommitment(serializeGraph(NewGraph(n, edges)), <<"a">>)} ELSE {})

InitAdv(graphs) ==
  /\ graph \in graphs
  /\ hamiltonianCycle = <<>>
  /\ pc = "cheat"
  /\ k = 0
  /\ challenges = <<>>
  /\ i = 0
  /\ rounds = <<>>
  /\ local = NoLocal
  /\ proof = NoProof
  /\ vi = 0
  /\ opened = <<>>
  /\ result = Pending
  /\ advRound = NoRound
  /\ advOutcome = Pending
  /\ accepted = {}
  /\ tampers = 0

\* the Verifier is handed the round: verifyRound(round, graph)
SubmitRound(round) ==
  /\ pc = "cheat"
  /\ advRound' = round
  /\ advOutcome' = verifyRound(round, graph)
  /\ pc' = "judged"
  /\ UNCHANGED <<graph, hamiltonianCycle, k, challenges, i, rounds, local, proof, vi,
                 opened, result, accepted, tampers>>

SubmitPermutation ==
  /\ pc = "cheat"
  /\ \E permutation \in AdvPermutations(getVertexCount(graph)),
        edges \in AdvLists(getVertexCount(graph)) :
       \E commitment \in AdvCommitments(getVertexCount(graph), edges) :
         SubmitRound([commitment |-> commitment,
                      response |-> [type |-> 0, permutation |-> permutation,
                                    permutedGraphEdges |-> edges]])

SpecPerm == InitAdv(AdvGraphs) /\ [][SubmitPermutation]_vars

\* what a submitted round reveals, in the specification's terms
Judged == pc = "judged"
RevealedGraph == NewGraph(getVertexCount(graph), advRound.response.permutedGraphEdges)
WellFormed == RevealedGraph.error = NoError
Opens == WellFormed /\ openCommitment(advRound.commitment, serializeGraph(RevealedGraph))
EdgeSetOf(edges) == {{edges[x][1], edges[x][2]} : x \in DOMAIN edges}
IsBijection(permutation, n) == Len(permutation) = n /\ Range(permutation) = 0..(n - 1)
ImageEdgeSet(g, permutation) ==
  {{permutation[e[1] + 1], permutation[e[2] + 1]} : e \in Range(getEdges(g))}

\* C6: whenever the canonical serialization of the revealed G' edge list does not
\* open the round's commitment, verifyRound rejects with the commitment-mismatch
\* reason, whatever else is wrong with the response. (Stated for revealed lists
\* that are edge lists of a graph on n vertices, the lists that have a
\* serialization.) The code validates the permutation before it looks at the
\* commitment, so a non-bijection with a list that does not open is rejected as
\* an invalid permutation.
C6_CommitmentCheckFirst ==
  (Judged /\ WellFormed /\ ~Opens) => advOutcome = Reject(CommitmentMismatch)

\* the commitment check does come before the isomorphism check
C6_Witness ==
  /\ Judged /\ WellFormed /\ ~Opens
  /\ IsBijection(advRound.response.permutation, getVertexCount(graph))
  /\ EdgeSetOf(advRound.response.permutedGraphEdges)
       # ImageEdgeSet(graph, advRound.response.permutation)
  /\ advOutcome = Reject(CommitmentMismatch)

\* C7: verifyRound accepts a type-0 response if and only if the permutation is a
\* bijection on [0,n), the revealed G' edge list opens the commitment and the edge
\* set of G' is exactly the image of G's edge set under the permutation; a
\* non-bijection is rejected as an invalid permutation, and a bijection with a G'
\* that opens the commitment but is not that image as an isomorphism mismatch.
C7_RevealPermutation ==
  (Judged /\ advRound.response.type = 0) =>
    LET n == getVertexCount(graph)
        permutation == advRound.response.permutation
        bijection == IsBijection(permutation, n)
        image == bijection /\ EdgeSetOf(advRound.response.permutedGraphEdges)
                                = ImageEdgeSet(graph, permutation)
    IN /\ (advOutcome = Accept) <=> (bijection /\ Opens /\ image)
       /\ ~bijection => advOutcome = Reject(InvalidPermutation)
       /\ (bijection /\ Opens /\ ~image) => advOutcome = Reject(IsomorphismMismatch)

\* accepted: a permutation that moves vertices, a G' listed in another order
C7_Witness ==
  /\ Judged /\ advOutcome = Accept
  /\ getVertexCount(graph) = MaxN
  /\ Len(getEdges(graph)) >= 2
  /\ advRound.response.permutation # <<0, 1, 2>>
  /\ advRound.response.permutedGraphEdges # getEdges(RevealedGraph)

\* rejected: a repeated value, and a bijection that maps G onto another graph
C7_WitnessInvalidPermutation ==
  /\ Judged /\ advOutcome = Reject(InvalidPermutation)
  /\ Len(advRound.response.permutation) = getVertexCount(graph)
  /\ Range(advRound.response.permutation) \subseteq 0..(getVertexCount(graph) - 1)

C7_WitnessIsomorphismMismatch ==
  /\ Judged /\ advOutcome = Reject(IsomorphismMismatch)
  /\ Len(advRound.response.permutedGraphEdges) = Len(getEdges(graph))

-----------------------------------------------------------------------------
(* SpecCycle: type-1 rounds. verifyRound reads only the vertex count of G on  *)
(* this branch, so G is the edgeless graph on n vertices.                     *)

\* a graph on six vertices, the smallest that two disjoint cycles can cover
SixVertices == NewGraph(6, <<>>)

CompleteOnSix ==
  <<<<0, 1>>, <<0, 2>>, <<0, 3>>, <<0, 4>>, <<0, 5>>, <<1, 2>>, <<1, 3>>, <<1, 4>>,
    <<1, 5>>, <<2, 3>>, <<2, 4>>, <<2, 5>>, <<3, 4>>, <<3, 5>>, <<4, 5>>>>

TwoTriangles == <<<<0, 1>>, <<1, 2>>, <<0, 2>>, <<3, 4>>, <<4, 5>>, <<3, 5>>>>

CycleGraphs == {NewGraph(n, <<>>) : n \in 0..MaxN} \cup {SixVertices}

\* revealed G' lists
CycleGraphLists(n) == IF n <= MaxN THEN AdvLists(n) ELSE {CompleteOnSix, TwoTriangles}

\* cycleEdges that give every vertex x one successor f(x), f one-to-one: single
\* cycles, unions of shorter cycles, edges listed twice, self-loops
SuccessorLists(n) ==
  {[x \in 1..n |-> <<x - 1, f[x]>>] :
     f \in {h \in [1..n -> 0..(n - 1)] : \A x, y \in 1..n : x # y => h[x] # h[y]}}

\* cycleEdges: up to n pairs in either orientation, self-loops and endpoints
\* outside [0,n) among them
CycleLists(n) ==
  IF n <= MaxN
    THEN SeqsUpTo(InputPairs(n) \cup {<<0, 0>>, <<0, n>>, <<-1, 0>>}, n)
    ELSE SuccessorLists(n)

SubmitCycle ==
  /\ pc = "cheat"
  /\ \E edges \in CycleGraphLists(getVertexCount(graph)),
        cycleEdges \in CycleLists(getVertexCount(graph)) :
       \E commitment \in AdvCommitments(getVertexCount(graph), edges) :
         SubmitRound([commitment |-> commitment,
                      response |-> [type |-> 1, permutedGraphEdges |-> edges,
                                    cycleEdges |-> cycleEdges]])

SpecCycle == InitAdv(CycleGraphs) /\ [][SubmitCycle]_vars

Degree(E, v) == Cardinality({e \in E : v \in e})

RECURSIVE ReachFrom(_, _)
ReachFrom(E, S) ==
  LET next == S \cup UNION {e \in E : e \cap S # {}}
  IN IF next = S THEN S ELSE ReachFrom(E, next)

\* E is the edge set of one cycle through all of 0..n-1 (a cycle has at least
\* three vertices)
IsSingleCycle(E, n) ==
  /\ n >= 3
  /\ \A e \in E : e \subseteq 0..(n - 1) /\ Cardinality(e) = 2
  /\ \A v \in 0..(n - 1) : Degree(E, v) = 2
  /\ ReachFrom(E, {0}) = 0..(n - 1)

Rejected == advOutcome.valid = FALSE /\ advOutcome.threw = NoError

\* C8: verifyRound accepts a type-1 response if and only if the revealed G' edge
\* list opens the commitment and cycleEdges is exactly n distinct edges, each
\* present in G', that form one single cycle through all n vertices; n edges with
\* a duplicate, n edges that split into several shorter cycles and n edges that
\* leave a vertex with degree other than 2 are never accepted, and are rejected
\* whenever the revealed G' list is an edge list at all.
C8_RevealCycle ==
  (Judged /\ advRound.response.type = 1) =>
    LET n == getVertexCount(graph)
        cycleEdges == advRound.response.cycleEdges
        E == EdgeSetOf(cycleEdges)
        distinctN == Len(cycleEdges) = n /\ Cardinality(E) = n
        inGraph == WellFormed /\ E \subseteq EdgeSetOf(getEdges(RevealedGraph))
        defect == \/ Cardinality(E) < n
                  \/ \E v \in 0..(n - 1) : Degree(E, v) # 2
                  \/ ~IsSingleCycle(E, n)
    IN /\ (advOutcome = Accept) <=> (Opens /\ distinctN /\ inGraph /\ IsSingleCycle(E, n))
       /\ (Len(cycleEdges) = n /\ defect) => advOutcome # Accept
       /\ (Len(cycleEdges) = n /\ defect /\ WellFormed) => Rejected

\* accepted: the triangle, its edges revealed in either orientation
C8_Witness ==
  /\ Judged /\ advOutcome = Accept
  /\ advRound.response.type = 1
  /\ getVertexCount(graph) = MaxN
  /\ \E x \in DOMAIN advRound.response.cycleEdges :
       advRound.response.cycleEdges[x][1] > advRound.response.cycleEdges[x][2]

\* accepted: one cycle through six vertices
C8_WitnessSix ==
  /\ Judged /\ advOutcome = Accept
  /\ advRound.response.type = 1
  /\ getVertexCount(graph) > MaxN

\* rejected: two triangles, every vertex of degree 2, every edge in the committed G'
C8_WitnessTwoCycles ==
  /\ Judged /\ Opens /\ Rejected
  /\ advRound.response.type = 1
  /\ getVertexCount(graph) > MaxN
  /\ advRound.response.permutedGraphEdges = TwoTriangles
  /\ EdgeSetOf(advRound.response.cycleEdges) = EdgeSetOf(TwoTriangles)
  /\ advOutcome.errorType = EdgesDoNotFormCycle

\* rejected: n edges that are one edge listed twice
C8_WitnessDuplicate ==
  /\ Judged /\ Opens /\ Rejected
  /\ advRound.response.type = 1
  /\ Len(advRound.response.cycleEdges) = getVertexCount(graph)
  /\ Cardinality(EdgeSetOf(advRound.response.cycleEdges)) = 1
  /\ EdgeSetOf(advRound.response.cycleEdges)
       \subseteq EdgeSetOf(advRound.response.permutedGraphEdges)
  /\ advOutcome.errorType = EdgesDoNotFormCycle

-----------------------------------------------------------------------------
(* SpecSound: a cheating prover fixes one commitment and then tries to have a *)
(* response of each type accepted against it. verifyRound keeps no state, so  *)
(* the order of the two attempts does not matter; a prover whose first        *)
(* response is not accepted has already failed to answer both challenges.     *)

\* the commitments a prover can open at all: to the serialization of a graph
SoundCommitments(n) ==
  {createCommitment(serializeGraph(NewGraph(n, e)), <<"a">>) : e \in AscendingLists(n, MaxEdges)}

\* revealed G' lists: edges in any order, repeated, one of them also reversed
SoundLists(n) == SeqsUpTo(NormPairs(n) \cup {<<1, 0>>}, MaxEdges)

CheatCommit ==
  /\ pc = "cheat"
  /\ \E commitment \in SoundCommitments(getVertexCount(graph)) :
       advRound' = [commitment |-> commitment]
  /\ pc' = "committed"
  /\ UNCHANGED <<graph, hamiltonianCycle, k, challenges, i, rounds, local, proof, vi,
                 opened, result, advOutcome, accepted, tampers>>

\* the Verifier judges a response against the fixed commitment
Judge(type, response) ==
  /\ \/ pc = "committed"
     \/ pc = "answered" /\ accepted # {} /\ type \notin accepted
  /\ advOutcome' = verifyRound([commitment |-> advRound.commitment, response |-> response],
                               graph)
  /\ accepted' = IF advOutcome' = Accept THEN accepted \cup {type} ELSE accepted
  /\ pc' = IF pc = "committed" THEN "answered" ELSE "done"
  /\ UNCHANGED <<graph, hamiltonianCycle, k, challenges, i, rounds, local, proof, vi,
                 opened, result, advRound, tampers>>

CheatRevealPermutation ==
  /\ pc \in {"committed", "answered"}
  /\ \E permutation \in SeqsOfLen(0..(getVertexCount(graph) - 1), getVertexCount(graph)),
        edges \in SoundLists(getVertexCount(graph)) :
       Judge(0, [type |-> 0, permutation |-> permutation, permutedGraphEdges |-> edges])

CheatRevealCycle ==
  /\ pc \in {"committed", "answered"}
  /\ \E edges \in SoundLists(getVertexCount(graph)),
        cycleEdges \in SeqsOfLen(InputPairs(getVertexCount(graph)), getVertexCount(graph)) :
       Judge(1, [type |-> 1, permutedGraphEdges |-> edges, cycleEdges |-> cycleEdges])

NextSound == CheatCommit \/ CheatRevealPermutation \/ CheatRevealCycle

SpecSound == InitAdv(AdvGraphs) /\ [][NextSound]_vars

\* G has a Hamiltonian cycle: some of its edges form one cycle through all vertices
HasHamiltonianCycle(g) ==
  \E E \in SUBSET EdgeSetOf(getEdges(g)) : IsSingleCycle(E, getVertexCount(g))

\* C2: for a graph G with no Hamiltonian cycle and any one commitment, no two
\* responses, one of type 0 and one of type 1, are both accepted by verifyRound
\* against that commitment.
C2_SingleRoundSoundness ==
  ~HasHamiltonianCycle(graph) => accepted # {0, 1}

\* the prover committed to a relabelling of G: the permutation is accepted, no
\* cycle is
C2_Witness ==
  /\ pc = "done"
  /\ ~HasHamiltonianCycle(graph)
  /\ Len(getEdges(graph)) >= 2
  /\ accepted = {0}
  /\ advOutcome = Reject(EdgesDoNotFormCycle)

\* the prover committed to a graph with a cycle: the cycle is accepted, no
\* permutation is
C2_WitnessCycleFirst ==
  /\ pc = "done"
  /\ ~HasHamiltonianCycle(graph)
  /\ Len(getEdges(graph)) >= 2
  /\ accepted = {1}
  /\ advOutcome = Reject(IsomorphismMismatch)

\* with a Hamiltonian cycle both responses are accepted
C2_WitnessHamiltonian ==
  /\ pc = "done"
  /\ HasHamiltonianCycle(graph)
  /\ accepted = {0, 1}

-----------------------------------------------------------------------------
(* SpecValidator: isValidHamiltonianCycle on arbitrary candidate sequences,    *)
(* and on the sequences derived from a cycle it accepted.                     *)

\* the 5-cycle graph of Scenarios A and B
FiveCycle == NewGraph(ScenarioA.vertexCount, ScenarioA.edges)

\* candidates: up to n+1 entries, some outside [0,n); on the 5-cycle graph every
\* ordering of the vertices
Candidates(g) ==
  LET n == getVertexCount(g)
  IN IF n <= MaxN THEN SeqsUpTo((-1)..n, n + 1)
     ELSE {c \in SeqsOfLen(0..(n - 1), n) : Cardinality(Range(c)) = n}

InitValidator ==
  /\ graph \in AdvGraphs \cup {FiveCycle}
  /\ hamiltonianCycle \in Candidates(graph)
  /\ pc = "candidate"
  /\ k = 0
  /\ challenges = <<>>
  /\ i = 0
  /\ rounds = <<>>
  /\ local = NoLocal
  /\ proof = NoProof
  /\ vi = 0
  /\ opened = <<>>
  /\ result = Pending
  /\ advRound = NoRound
  /\ advOutcome = Pending
  /\ accepted = {}
  /\ tampers = 0

\* isValidHamiltonianCycle(cycle, graph) is called on a sequence; how the sequence
\* was obtained is kept in pc
Validate(cycle, how) ==
  /\ hamiltonianCycle' = cycle
  /\ result' = [valid |-> isValidHamiltonianCycle(cycle, graph)]
  /\ pc' = how
  /\ UNCHANGED <<graph, k, challenges, i, rounds, local, proof, vi, opened, advRound,
                 advOutcome, accepted, tampers>>

ValidateCandidate ==
  /\ pc = "candidate"
  /\ Validate(hamiltonianCycle, "validated")

\* an accepted sequence, or one derived from it by rotations and reversals
FromAccepted == pc \in {"validated", "rotated", "reversed"} /\ result = [valid |-> TRUE]

Rotation(cycle) == IF cycle = <<>> THEN cycle ELSE Append(Tail(cycle), Head(cycle))
Reversal(cycle) == [x \in DOMAIN cycle |-> cycle[Len(cycle) + 1 - x]]
Omission(cycle, x) == [y \in 1..(Len(cycle) - 1) |-> IF y < x THEN cycle[y] ELSE cycle[y + 1]]
Repetition(cycle, x, y) == [cycle EXCEPT ![x] = cycle[y]]

ValidateRotation == FromAccepted /\ Validate(Rotation(hamiltonianCycle), "rotated")

ValidateReversal == FromAccepted /\ Validate(Reversal(hamiltonianCycle), "reversed")

ValidateOmission ==
  /\ FromAccepted
  /\ \E x \in DOMAIN hamiltonianCycle : Validate(Omission(hamiltonianCycle, x), "omitted")

ValidateRepetition ==
  /\ FromAccepted
  /\ \E x, y \in DOMAIN hamiltonianCycle :
       x # y /\ Validate(Repetition(hamiltonianCycle, x, y), "repeated")

NextValidator ==
  \/ ValidateCandidate
  \/ ValidateRotation
  \/ ValidateReversal
  \/ ValidateOmission
  \/ ValidateRepetition

SpecValidator == InitValidator /\ [][NextValidator]_vars

\* C11: isValidHamiltonianCycle(cycle, G) is true if and only if cycle has length
\* n, its entries are distinct and lie in [0,n), and every pair
\* (cycle[i], cycle[(i+1) mod n]) is an edge of G.
C11_ValidatorIff ==
  pc = "validated" =>
    LET n == getVertexCount(graph)
        cycle == hamiltonianCycle
    IN result.valid <=>
         /\ Len(cycle) = n
         /\ Range(cycle) = 0..(n - 1)
         /\ \A x \in 1..n :
              {cycle[x], cycle[(x % n) + 1]} \in EdgeSetOf(getEdges(graph))

\* Scenario B: on the 5-cycle graph 0 1 2 4 3 is rejected, edge (2,4) being absent
C11_Witness ==
  /\ pc = "validated"
  /\ graph = FiveCycle
  /\ hamiltonianCycle = <<0, 1, 2, 4, 3>>
  /\ {2, 4} \notin EdgeSetOf(getEdges(graph))
  /\ result = [valid |-> FALSE]

C11_WitnessAccepted ==
  /\ pc = "validated"
  /\ graph = FiveCycle
  /\ hamiltonianCycle = <<3, 2, 1, 0, 4>>
  /\ result = [valid |-> TRUE]

\* C12: every rotation and the reversal of an accepted cycle are accepted; an
\* accepted cycle with one vertex omitted, or with one vertex replaced by a repeat
\* of another, is rejected.
C12_ValidatorLaws ==
  /\ pc \in {"rotated", "reversed"} => result = [valid |-> TRUE]
  /\ pc \in {"omitted", "repeated"} => result = [valid |-> FALSE]

\* a rotation of a reversal on the 5-cycle graph
C12_Witness ==
  /\ pc = "rotated"
  /\ graph = FiveCycle
  /\ hamiltonianCycle = <<3, 2, 1, 0, 4>>
  /\ result = [valid |-> TRUE]

C12_WitnessRepeated ==
  /\ pc = "repeated"
  /\ graph = FiveCycle
  /\ hamiltonianCycle = <<0, 1, 2, 3, 3>>
  /\ result = [valid |-> FALSE]

C12_WitnessOmitted ==
  /\ pc = "omitted"
  /\ getVertexCount(graph) = MaxN
  /\ Len(hamiltonianCycle) = MaxN - 1
  /\ result = [valid |-> FALSE]

-----------------------------------------------------------------------------
(* SpecGraph: the Graph constructor on arbitrary inputs, and isIsomorphicTo    *)
(* on a constructed graph, its image under a bijection and that image with    *)
(* one edge more or less.                                                     *)

\* input edges: pairs over -1..n (self-loops and endpoints outside [0,n) among
\* them), and arrays with a missing endpoint
ConstructorPairs(n) == (((-1)..n) \X ((-1)..n)) \cup {<<>>, <<0>>, <<1>>}

ConstructorInputs(n) ==
  {[vertexCount |-> n, edges |-> e] : e \in SeqsUpTo(ConstructorPairs(n), MaxEdges)}

\* vertexCount is Number(...) of the first word of the graph file: any number, a
\* negative one among them
InitGraph ==
  /\ \E n \in (-1)..MaxN : local \in ConstructorInputs(n)
  /\ graph = EmptyGraph(0)
  /\ hamiltonianCycle = <<>>
  /\ pc = "input"
  /\ k = 0
  /\ challenges = <<>>
  /\ i = 0
  /\ rounds = <<>>
  /\ proof = NoProof
  /\ vi = 0
  /\ opened = <<>>
  /\ result = Pending
  /\ advRound = NoRound
  /\ advOutcome = Pending
  /\ accepted = {}
  /\ tampers = 0

\* new Graph(input)
Construct ==
  /\ pc = "input"
  /\ LET g == NewGraph(local.vertexCount, local.edges)
     IN /\ graph' = g
        /\ pc' = IF g.error # NoError THEN "threw" ELSE "constructed"
        /\ result' = IF g.error # NoError THEN [threw |-> g.error, by |-> "Graph"] ELSE result
  /\ UNCHANGED <<hamiltonianCycle, k, challenges, i, rounds, local, proof, vi, opened,
                 advRound, advOutcome, accepted, tampers>>

Bijections(n) == {p \in SeqsOfLen(0..(n - 1), n) : Cardinality(Range(p)) = n}

\* graph.isIsomorphicTo(other, permutation); how other was obtained is kept in pc
Compare(other, permutation, how) ==
  /\ local' = [permutation |-> permutation, other |-> other]
  /\ result' = [valid |-> isIsomorphicTo(graph, other, permutation)]
  /\ pc' = how
  /\ UNCHANGED <<graph, hamiltonianCycle, k, challenges, i, rounds, proof, vi, opened,
                 advRound, advOutcome, accepted, tampers>>

\* other = applyPermutationToGraph(graph, permutation)
ComparePermuted ==
  /\ pc = "constructed"
  /\ \E permutation \in Bijections(getVertexCount(graph)) :
       Compare(applyPermutationToGraph(graph, permutation), permutation, "permuted")

\* other.addEdge(u, v) for an edge other does not have
CompareEdgeAdded ==
  /\ pc = "permuted"
  /\ \E e \in InputPairs(getVertexCount(graph)) :
       /\ ~hasEdge(local.other, e[1], e[2])
       /\ Compare(addEdge(local.other, e[1], e[2]), local.permutation, "edgeAdded")

\* other rebuilt from its edge list without one of its edges
CompareEdgeRemoved ==
  /\ pc = "permuted"
  /\ \E e \in Range(getEdges(local.other)) :
       Compare(NewGraph(getVertexCount(graph),
                        SelectSeq(getEdges(local.other), LAMBDA f : f # e)),
               local.permutation, "edgeRemoved")

NextGraph == Construct \/ ComparePermuted \/ CompareEdgeAdded \/ CompareEdgeRemoved

SpecGraph == InitGraph /\ [][NextGraph]_vars
C13_WitnessEdgeAdded ==
  /\ pc = "edgeAdded"
  /\ Cardinality(EdgeSetOf(getEdges(graph))) = 2
  /\ Cardinality(EdgeSetOf(getEdges(local.other))) = 3
  /\ result = [valid |-> FALSE]

C13_WitnessEdgeRemoved ==
  /\ pc = "edgeRemoved"
  /\ Cardinality(EdgeSetOf(getEdges(graph))) = 2
  /\ Cardinality(EdgeSetOf(getEdges(local.other))) = 1
  /\ result = [valid |-> FALSE]

IsSelfLoop(edge) == Endpoint(edge, 1) = Endpoint(edge, 2)
IsOutOfRange(edge, n) ==
  Endpoint(edge, 1) \notin 0..(n - 1) \/ Endpoint(edge, 2) \notin 0..(n - 1)

C14_WitnessOutOfRange ==
  /\ pc = "threw"
  /\ local.vertexCount = MaxN
  /\ local.edges = <<<<0, MaxN>>>>
  /\ result.threw = "Vertex out of range"

\* C15: in every constructed Graph every stored edge (u,v) has 0 <= u < v < n and
\* the stored edge list holds no edge twice, so getEdgeCount is the number of
\* distinct edges. The code appends to edgesList on every addEdge, so an edge named
\* twice (or in both orientations) is stored twice.
C15_GraphInvariant ==
  pc = "constructed" =>
    /\ \A x \in DOMAIN getEdges(graph) :
         /\ 0 <= getEdges(graph)[x][1]
         /\ getEdges(graph)[x][1] < getEdges(graph)[x][2]
         /\ getEdges(graph)[x][2] < getVertexCount(graph)
    /\ Len(getEdges(graph)) = Cardinality(EdgeSetOf(getEdges(graph)))

\* the part of C15 the code keeps: every stored edge is normalized and in range
C15_StoredEdgesNormalized ==
  pc = "constructed" =>
    \A x \in DOMAIN getEdges(graph) :
      /\ 0 <= getEdges(graph)[x][1]
      /\ getEdges(graph)[x][1] < getEdges(graph)[x][2]
      /\ getEdges(graph)[x][2] < getVertexCount(graph)

\* the edge (0,1) given in both orientations is stored twice
C15_Witness ==
  /\ pc = "constructed"
  /\ local.vertexCount = 2
  /\ local.edges = <<<<0, 1>>, <<1, 0>>>>
  /\ getEdges(graph) = <<<<0, 1>>, <<0, 1>>>>
-----------------------------------------------------------------------------
(* SpecUtil: the permutation utilities on arbitrary arrays, bijections or not *)

\* arrays of up to n+1 values over -1..n
UtilPermutations(n) == SeqsUpTo((-1)..n, n + 1)

InitUtil ==
  /\ graph \in AdvGraphs
  /\ local \in {[permutation |-> p] : p \in UtilPermutations(getVertexCount(graph))}
  /\ hamiltonianCycle = <<>>
  /\ pc = "input"
  /\ k = 0
  /\ challenges = <<>>
  /\ i = 0
  /\ rounds = <<>>
  /\ proof = NoProof
  /\ vi = 0
  /\ opened = <<>>
  /\ result = Pending
  /\ advRound = NoRound
  /\ advOutcome = Pending
  /\ accepted = {}
  /\ tampers = 0

\* a utility returned value, or threw (threw # "")
Returned(how, threw, value) ==
  /\ pc' = how
  /\ result' = [threw |-> threw, value |-> value]
  /\ UNCHANGED <<graph, k, challenges, i, rounds, local, proof, vi, opened, advRound,
                 advOutcome, accepted, tampers>>

\* applyPermutationToGraph(graph, permutation)
CallApplyToGraph ==
  /\ pc = "input"
  /\ hamiltonianCycle' = hamiltonianCycle
  /\ LET permuted == applyPermutationToGraph(graph, local.permutation)
     IN Returned("appliedToGraph", permuted.error, permuted)

\* applyPermutationToCycle(cycle, permutation) for an ordering of the vertices
CallApplyToCycle ==
  /\ pc = "input"
  /\ \E cycle \in Bijections(getVertexCount(graph)) :
       /\ hamiltonianCycle' = cycle
       /\ LET permuted == applyPermutationToCycle(cycle, local.permutation)
          IN IF permuted = <<Undefined>>
               THEN Returned("appliedToCycle", "Invalid permutation index for vertex", <<>>)
             ELSE Returned("appliedToCycle", NoError, permuted)

\* inversePermutation(permutation)
CallInverse ==
  /\ pc = "input"
  /\ hamiltonianCycle' = hamiltonianCycle
  /\ LET inverse == inversePermutation(local.permutation)
     IN Returned("inverted", inverse.error, inverse.inv)

\* inversePermutation of the array the first call returned
CallInverseAgain ==
  /\ pc = "inverted"
  /\ result.threw = NoError
  /\ Undefined \notin Range(result.value)
  /\ hamiltonianCycle' = hamiltonianCycle
  /\ LET inverse == inversePermutation(result.value)
     IN Returned("invertedTwice", inverse.error, inverse.inv)

\* graph.isIsomorphicTo(other, permutation) for any graph other
CallIsIsomorphicTo ==
  /\ pc = "input"
  /\ hamiltonianCycle' = hamiltonianCycle
  /\ \E other \in AdvGraphs :
       Returned("compared", NoError,
                [other |-> other,
                 isomorphic |-> isIsomorphicTo(graph, other, local.permutation)])

NextUtil ==
  CallApplyToGraph \/ CallApplyToCycle \/ CallInverse \/ CallInverseAgain \/ CallIsIsomorphicTo

SpecUtil == InitUtil /\ [][NextUtil]_vars

\* C17: applyPermutationToGraph, applyPermutationToCycle and inversePermutation
\* each throw whenever the permutation is not a bijection on [0,n) of the correct
\* length (for inversePermutation, which is given no n: not a bijection on
\* [0, perm.length)). In the code applyPermutationToCycle checks only that
\* perm[vertex] exists, inversePermutation only the range of the values, and
\* applyPermutationToGraph lets a value outside [0,n) pass when no edge touches it.
C17_UtilitiesRejectNonBijections ==
  /\ (pc \in {"appliedToGraph", "appliedToCycle"}
        /\ ~IsBijection(local.permutation, getVertexCount(graph)))
       => result.threw # NoError
  /\ (pc = "inverted" /\ ~IsBijection(local.permutation, Len(local.permutation)))
       => result.threw # NoError

\* a repeated value: applyPermutationToCycle returns the mapped cycle
C17_Witness ==
  /\ pc = "appliedToCycle"
  /\ local.permutation = <<0, 0, 1>>
  /\ hamiltonianCycle = <<0, 1, 2>>
  /\ result = [threw |-> NoError, value |-> <<0, 0, 1>>]

\* a repeated value: inversePermutation returns an array with a hole
C17_WitnessInverse ==
  /\ pc = "inverted"
  /\ local.permutation = <<0, 0>>
  /\ result = [threw |-> NoError, value |-> <<1, Undefined>>]

\* a value outside [0,n) at an isolated vertex: applyPermutationToGraph returns a graph
C17_WitnessGraph ==
  /\ pc = "appliedToGraph"
  /\ getEdges(graph) = <<<<0, 1>>>>
  /\ local.permutation = <<1, 0, MaxN>>
  /\ result.threw = NoError
  /\ getEdges(result.value) = <<<<0, 1>>>>

\* what the three do reject
C17_WhatIsRejected ==
  /\ (pc = "appliedToGraph" /\ (Len(local.permutation) # getVertexCount(graph)
                                 \/ Cardinality(Range(local.permutation)) # Len(local.permutation)))
       => result.threw # NoError
  /\ (pc = "inverted" /\ \E x \in DOMAIN local.permutation :
                           local.permutation[x] \notin 0..(Len(local.permutation) - 1))
       => result.threw # NoError
  /\ (pc = "appliedToCycle" /\ Len(local.permutation) < getVertexCount(graph))
       => result.threw # NoError

\* C18: for every bijection on [0,n), inversePermutation returns the inverse
\* bijection: inv[perm[x]] = x for every x, and the inverse of the inverse is perm;
\* Graph's private inversePermutation agrees with it.
C18_InverseOfBijection ==
  LET perm == local.permutation
  IN /\ (pc = "inverted" /\ IsBijection(perm, Len(perm))) =>
          /\ result.threw = NoError
          /\ Len(result.value) = Len(perm)
          /\ \A x \in 0..(Len(perm) - 1) :
               /\ result.value[perm[x + 1] + 1] = x
               /\ InvGet(perm, perm[x + 1]) = x
     /\ (pc = "invertedTwice" /\ IsBijection(perm, Len(perm))) =>
          result = [threw |-> NoError, value |-> perm]

\* a 3-cycle, which is not its own inverse
C18_Witness ==
  /\ pc = "invertedTwice"
  /\ local.permutation = <<1, 2, 0>>
  /\ result.value = <<1, 2, 0>>

C18_WitnessInverse ==
  /\ pc = "inverted"
  /\ local.permutation = <<1, 2, 0>>
  /\ result.value = <<2, 0, 1>>

-----------------------------------------------------------------------------
(* SpecShuffle: generateRandomPermutation one swap at a time *)

MaxShuffle == 5
MaxDraw == 11

\* crypto.randomBytes(4)
DrawBytes == 4

\* randomValue % (i + 1)
SwapIndex(randomValue, idx) == randomValue % (idx + 1)

\* values readUInt32BE can return that fit the model's integers
ShuffleDraws == 0..MaxDraw

InitShuffle ==
  /\ \E n \in 0..MaxShuffle :
       /\ local = [n |-> n, permutation |-> [x \in 1..n |-> x - 1],
                   draws |-> [x \in 1..(n - 1) |-> 0], at |-> Undefined, j |-> Undefined]
       /\ i = n - 1
  /\ pc = "loop"
  /\ graph = EmptyGraph(0)
  /\ hamiltonianCycle = <<>>
  /\ k = 0
  /\ challenges = <<>>
  /\ rounds = <<>>
  /\ proof = NoProof
  /\ vi = 0
  /\ opened = <<>>
  /\ result = Pending
  /\ advRound = NoRound
  /\ advOutcome = Pending
  /\ accepted = {}
  /\ tampers = 0

\* one pass of the loop body at index i
ShuffleStep ==
  /\ pc = "loop"
  /\ i > 0
  /\ \E randomValue \in ShuffleDraws :
       LET j == SwapIndex(randomValue, i)
       IN IF ArrGet(local.permutation, i) = Undefined \/ ArrGet(local.permutation, j) = Undefined
            THEN /\ pc' = "threw"
                 /\ result' = [threw |-> "Invalid permutation index", by |-> "generateRandomPermutation"]
                 /\ UNCHANGED <<local, i>>
          ELSE /\ local' = [local EXCEPT !.permutation = SwapAt(local.permutation, i, j),
                                         !.draws[i] = randomValue, !.at = i, !.j = j]
               /\ i' = i - 1
               /\ UNCHANGED <<pc, result>>
  /\ UNCHANGED <<graph, hamiltonianCycle, k, challenges, rounds, proof, vi, opened, advRound,
                 advOutcome, accepted, tampers>>

\* return permutation
ShuffleReturn ==
  /\ pc = "loop"
  /\ i <= 0
  /\ pc' = "returned"
  /\ result' = [threw |-> NoError, value |-> local.permutation]
  /\ UNCHANGED <<graph, hamiltonianCycle, k, challenges, i, rounds, local, proof, vi, opened,
                 advRound, advOutcome, accepted, tampers>>

NextShuffle == ShuffleStep \/ ShuffleReturn

SpecShuffle == InitShuffle /\ [][NextShuffle]_vars

\* 256^bytes divided by m, by long division in base 256: the quotient's digits,
\* most significant first, and the remainder
RECURSIVE QuotientDigits(_, _, _)
QuotientDigits(bytes, r, m) ==
  IF bytes = 0 THEN <<>>
  ELSE <<(r * 256) \div m>> \o QuotientDigits(bytes - 1, (r * 256) % m, m)

RECURSIVE PowerRemainder(_, _)
PowerRemainder(bytes, m) ==
  IF bytes = 0 THEN 1 % m ELSE (256 * PowerRemainder(bytes - 1, m)) % m

\* how many of the 256^bytes values v have v % m = j: the quotient (as digits)
\* and one more for the residues below the remainder
SelectedBy(j, m, bytes) ==
  [floor |-> <<1 \div m>> \o QuotientDigits(bytes, 1 % m, m),
   more |-> IF j < PowerRemainder(bytes, m) THEN 1 ELSE 0]

RECURSIVE DigitsValue(_)
DigitsValue(digits) ==
  IF digits = <<>> THEN 0
  ELSE 256 * DigitsValue(SubSeq(digits, 1, Len(digits) - 1)) + digits[Len(digits)]

\* the count agrees with counting the values of one byte one by one
SelectedBy_OneByte ==
  \A idx \in 1..(MaxShuffle - 1) : \A j \in 0..idx :
    LET count == SelectedBy(j, idx + 1, 1)
    IN Cardinality({v \in 0..255 : SwapIndex(v, idx) = j}) = DigitsValue(count.floor) + count.more

\* C19: at every shuffle step i, each swap index j in [0,i] is selected by the same
\* number of the 2^32 values a draw can take. In the code j = randomValue % (i + 1),
\* and 2^32 is not a multiple of 3 or 5, so index 0 is selected by one value more.
C19_UniformSwapIndex ==
  (pc = "loop" /\ local.at # Undefined) =>
    \A j \in 0..local.at :
      SelectedBy(j, local.at + 1, DrawBytes) = SelectedBy(local.j, local.at + 1, DrawBytes)

\* the step at index 2 has swapped with index 1, which 1431655765 values select,
\* while index 0 is selected by 1431655766
C19_Witness ==
  /\ pc = "loop"
  /\ local.n = 3
  /\ local.at = 2
  /\ local.j = 1
  /\ SelectedBy(1, 3, DrawBytes) = [floor |-> <<0, 85, 85, 85, 85>>, more |-> 0]
  /\ SelectedBy(0, 3, DrawBytes) = [floor |-> <<0, 85, 85, 85, 85>>, more |-> 1]

\* the steps whose modulus is a power of two are uniform
C19_UniformWhenPowerOfTwo ==
  (pc = "loop" /\ local.at \in {1, 3}) =>
    \A j \in 0..local.at :
      SelectedBy(j, local.at + 1, DrawBytes) = SelectedBy(local.j, local.at + 1, DrawBytes)

\* C20: for every n >= 0 and every sequence of draws, the array has length n and
\* holds exactly 0..n-1, each once, after every swap of the shuffle and at the
\* return; the array returned is the one the whole loop computes.
C20_ShuffleIsBijection ==
  /\ pc \in {"loop", "returned"} =>
       /\ Len(local.permutation) = local.n
       /\ IsBijection(local.permutation, local.n)
       /\ Range(local.permutation) = 0..(local.n - 1)
  /\ pc = "returned" =>
       /\ result = [threw |-> NoError, value |-> local.permutation]
       /\ result.value = generateRandomPermutation(local.n, local.draws)
  /\ pc # "threw"

\* in the middle of a shuffle of five, after a swap that moved a value
C20_Witness ==
  /\ pc = "loop"
  /\ local.n = 5
  /\ local.at = 3
  /\ local.permutation = <<3, 1, 2, 4, 0>>

C20_WitnessReturned ==
  /\ pc = "returned"
  /\ result.value = <<1, 2, 3, 4, 0>>

C20_WitnessEmpty ==
  /\ pc = "returned"
  /\ local.n = 0
  /\ result.value = <<>>

-----------------------------------------------------------------------------
(* SpecCommit: createCommitment on a message, openCommitment on any message *)

MaxMessage == 2

\* characters of serialized graphs, and one that is also a salt character
MessageChars == {"0", "1", ",", "|", "a"}
Messages == SeqsUpTo(MessageChars, MaxMessage)

InitCommit ==
  /\ local \in {[data |-> m] : m \in Messages}
  /\ pc = "message"
  /\ graph = EmptyGraph(0)
  /\ hamiltonianCycle = <<>>
  /\ k = 0
  /\ challenges = <<>>
  /\ i = 0
  /\ rounds = <<>>
  /\ proof = NoProof
  /\ vi = 0
  /\ opened = <<>>
  /\ result = Pending
  /\ advRound = NoRound
  /\ advOutcome = Pending
  /\ accepted = {}
  /\ tampers = 0

\* createCommitment(data) with the salt crypto.randomBytes returns
CallCreateCommitment ==
  /\ pc = "message"
  /\ \E salt \in Salts :
       local' = [data |-> local.data, commitment |-> createCommitment(local.data, salt)]
  /\ pc' = "committed"
  /\ UNCHANGED <<graph, hamiltonianCycle, k, challenges, i, rounds, proof, vi, opened, result,
                 advRound, advOutcome, accepted, tampers>>

\* openCommitment(commitment, data) for any message
CallOpenCommitment ==
  /\ pc = "committed"
  /\ \E data \in Messages :
       result' = [valid |-> openCommitment(local.commitment, data), data |-> data]
  /\ pc' = "opened"
  /\ UNCHANGED <<graph, hamiltonianCycle, k, challenges, i, rounds, local, proof, vi, opened,
                 advRound, advOutcome, accepted, tampers>>

NextCommit == CallCreateCommitment \/ CallOpenCommitment

SpecCommit == InitCommit /\ [][NextCommit]_vars

\* C21: openCommitment(createCommitment(m), m) is true for every message m, and,
\* the hash being collision-free, openCommitment(createCommitment(m), m') is false
\* for every m' # m: a commitment is opened by exactly the message committed.
C21_CommitmentBinding ==
  pc = "opened" => (result.valid <=> result.data = local.data)

\* a message that differs from the committed one in its first character only
C21_Witness ==
  /\ pc = "opened"
  /\ local.data = <<"0", "a">>
  /\ result = [valid |-> FALSE, data |-> <<"1", "a">>]

C21_WitnessOpened ==
  /\ pc = "opened"
  /\ local.data = <<"0", ",">>
  /\ result = [valid |-> TRUE, data |-> <<"0", ",">>]

-----------------------------------------------------------------------------
(* SpecSerialize: the two serializeGraph functions on graphs built from edge  *)
(* lists in any order and orientation                                         *)

\* edge lists of a graph file on n vertices: any order, either orientation, repeats
EdgeLists(n) == SeqsUpTo(InputPairs(n), MaxEdges)

InitSerialize ==
  /\ \E n \in 0..MaxN :
       /\ local \in {[edges |-> e] : e \in EdgeLists(n)}
       /\ graph = NewGraph(n, local.edges)
  /\ pc = "built"
  /\ hamiltonianCycle = <<>>
  /\ k = 0
  /\ challenges = <<>>
  /\ i = 0
  /\ rounds = <<>>
  /\ proof = NoProof
  /\ vi = 0
  /\ opened = <<>>
  /\ result = Pending
  /\ advRound = NoRound
  /\ advOutcome = Pending
  /\ accepted = {}
  /\ tampers = 0

\* a second graph on the same vertices is built and both are serialized
SerializeBoth ==
  /\ pc = "built"
  /\ \E otherEdges \in EdgeLists(getVertexCount(graph)) :
       /\ local' = [edges |-> local.edges, otherEdges |-> otherEdges]
       /\ result' = [serialized |-> serializeGraph(graph),
                     other |-> serializeGraph(NewGraph(getVertexCount(graph), otherEdges))]
  /\ pc' = "serialized"
  /\ UNCHANGED <<graph, hamiltonianCycle, k, challenges, i, rounds, proof, vi, opened,
                 advRound, advOutcome, accepted, tampers>>

\* commitToGraph on the graph; the Verifier reconstructs it from the revealed
\* edge list, serializes it with its own serializeGraph and opens the commitment
CommitAndOpen ==
  /\ pc = "built"
  /\ \E salt \in Salts :
       LET commitment == commitToGraph(graph, <<>>, salt)
           permutedGraph == reconstructGraphFromEdges(getEdges(graph), getVertexCount(graph))
           serialized == VerifierSerializeGraph(permutedGraph)
       IN /\ local' = [edges |-> local.edges, commitment |-> commitment]
          /\ result' = [valid |-> openCommitment(commitment, serialized),
                        serialized |-> serializeGraph(graph),
                        verifier |-> serialized]
  /\ pc' = "opened"
  /\ UNCHANGED <<graph, hamiltonianCycle, k, challenges, i, rounds, proof, vi, opened,
                 advRound, advOutcome, accepted, tampers>>

NextSerialize == SerializeBoth \/ CommitAndOpen

SpecSerialize == InitSerialize /\ [][NextSerialize]_vars

\* the edge set in ascending order of (u,v), each edge once
AscendingEdges(edges) ==
  CHOOSE s \in AscendingLists(MaxN, MaxEdges) : EdgeSetOf(s) = EdgeSetOf(edges)

\* C22: two graphs on n vertices with the same edge set, built from edge lists in
\* any insertion order and with either endpoint orientation, serialize to the same
\* string; and the Verifier's serializeGraph returns the string commitToGraph
\* serialized, so the Verifier's reconstructed graph opens the commitment. In the
\* code a list that names an edge twice keeps it twice, so it does not serialize
\* as the same edge set named once.
C22_CanonicalSerialization ==
  /\ (pc = "serialized" /\ EdgeSetOf(local.edges) = EdgeSetOf(local.otherEdges))
       => result.serialized = result.other
  /\ pc = "opened" => (result.valid /\ result.verifier = result.serialized)

\* the edge (0,1) named twice, in both orientations, against the edge named once
C22_Witness ==
  /\ pc = "serialized"
  /\ getVertexCount(graph) = 2
  /\ local.edges = <<<<0, 1>>, <<1, 0>>>>
  /\ local.otherEdges = <<<<0, 1>>>>
  /\ result.serialized = <<"0", ",", "1", "|", "0", ",", "1">>
  /\ result.other = <<"0", ",", "1">>

\* what holds: lists that name every edge as often as each other serialize alike,
\* a list without repeats serializes as its ascending edge set, and the Verifier's
\* string is the committed one
C22_SameEdgesSameString ==
  /\ (pc = "serialized" /\ \A e \in EdgeSetOf(local.edges) \cup EdgeSetOf(local.otherEdges) :
          Cardinality({x \in DOMAIN local.edges : {local.edges[x][1], local.edges[x][2]} = e})
            = Cardinality({x \in DOMAIN local.otherEdges :
                             {local.otherEdges[x][1], local.otherEdges[x][2]} = e}))
       => result.serialized = result.other
  /\ (pc = "serialized" /\ Cardinality(EdgeSetOf(local.edges)) = Len(local.edges))
       => result.serialized = JoinEdges(AscendingEdges(local.edges))
  /\ pc = "opened" => (result.valid /\ result.verifier = result.serialized)

C22_WitnessReordered ==
  /\ pc = "serialized"
  /\ local.edges = <<<<2, 1>>, <<0, 2>>, <<1, 0>>>>
  /\ local.otherEdges = <<<<0, 1>>, <<1, 2>>, <<0, 2>>>>
  /\ result.serialized = result.other

C22_WitnessOpened ==
  /\ pc = "opened"
  /\ local.edges = <<<<2, 1>>, <<1, 0>>>>
  /\ result.valid
  /\ result.verifier = <<"0", ",", "1", "|", "1", ",", "2">>

-----------------------------------------------------------------------------
(* SpecOrder: verifyRound on the rounds of a proof in any order, and          *)
(* verifyProof on the proof and on a reordering of its rounds                 *)

\* verifier.verifyRound(round, graph, x) on any round of the proof, any number of times
VerifyAnyRound ==
  /\ pc = "proved"
  /\ \E x \in DOMAIN proof.rounds :
       /\ proof.rounds[x] # NoRound
       /\ accepted' = accepted \cup {<<proof.rounds[x], verifyRound(proof.rounds[x], graph)>>}
       /\ graph' = GraphAfterVerifyRound(graph, proof.rounds[x])
  /\ UNCHANGED <<hamiltonianCycle, pc, k, challenges, i, rounds, local, proof, vi, opened,
                 result, advRound, advOutcome, tampers>>

\* after verifyProof has finished, the same Verifier is given the rounds in another order
ReorderRounds ==
  /\ pc \in {"done", "threw"}
  /\ advOutcome = Pending
  /\ advOutcome' = result
  /\ \E order \in Bijections(Len(proof.rounds)) :
       proof' = [proof EXCEPT !.rounds = [x \in DOMAIN proof.rounds |-> proof.rounds[order[x] + 1]]]
  /\ pc' = "proved"
  /\ vi' = 0
  /\ opened' = <<>>
  /\ result' = Pending
  /\ UNCHANGED <<graph, hamiltonianCycle, k, challenges, i, rounds, local, advRound,
                 accepted, tampers>>

NextOrder == VerifyAnyRound \/ CallVerifyProof \/ VerifyNextRound \/ ReorderRounds

SpecOrder == InitVerify /\ [][NextOrder]_vars

IsAccepted(r) == r = [valid |-> TRUE]

C23_WitnessAccepted ==
  /\ pc = "done"
  /\ Len(proof.rounds) = 2
  /\ NoRound \notin Range(proof.rounds)
  /\ proof.rounds[1].response.type = 1
  /\ proof.rounds[2].response.type = 0
  /\ IsAccepted(advOutcome)
  /\ IsAccepted(result)
  /\ Cardinality(accepted) = 2

\* a reordering can turn a returned rejection into an exception: the round whose
\* revealed list the Graph constructor refuses, placed first
C23_WitnessThrew ==
  /\ pc = "threw"
  /\ advOutcome # Pending
  /\ ~IsAccepted(advOutcome)
  /\ "failedRound" \in DOMAIN advOutcome

-----------------------------------------------------------------------------
(* Claims about the Prover's state between rounds (Spec) *)

C24_WitnessBetweenRounds ==
  /\ pc = "commit"
  /\ i = 1
  /\ Len(rounds) = 1
  /\ local = NoLocal

-----------------------------------------------------------------------------
(* Claims about how verifyProof ends (SpecVerify) *)

\* the revealed list, serialized as serializeGraph would, does not open the commitment
RevealsOther(round) ==
  LET revealed == round.response.permutedGraphEdges
  IN ~openCommitment(round.commitment,
                     JoinEdges(SortEdges([x \in DOMAIN revealed |-> NormalizeEdge(revealed[x])])))

ListedDefects ==
  {CommitmentMismatch, IsomorphismMismatch, WrongCycleEdgeCount, EdgesDoNotFormCycle,
   InvalidCycle, EdgeNotInCommittedGraph}

\* the proof has one of the defects the claim lists
HasListedDefect ==
  \/ Len(proof.rounds) # proof.k
  \/ \E x \in DOMAIN proof.rounds :
       /\ proof.rounds[x] # NoRound
       /\ \/ RevealsOther(proof.rounds[x])
          \/ verifyRound(proof.rounds[x], graph).errorType \in ListedDefects

IsStructuredRejection(r) ==
  /\ DOMAIN r = {"valid", "failedRound", "errorType"}
  /\ r.valid = FALSE
  /\ r.failedRound \in 0..Len(proof.rounds)
  /\ r.errorType # ""

\* C25: for every proof whose defect is a commitment mismatch (a revealed G' other
\* than the committed one), an isomorphism mismatch, an invalid cycle shape, a
\* cycle edge absent from G' or a round-count mismatch, verifyProof returns
\* {valid: false, failedRound, errorType} and does not raise. In the code a
\* revealed list other than the committed one that holds a self-loop or a vertex
\* outside [0,n) makes the Graph constructor throw inside verifyRound.
C25_FailuresAreDecisions ==
  (pc \in {"done", "threw"} /\ HasListedDefect) =>
     /\ pc = "done"
     /\ IsStructuredRejection(result)

\* the commitment is to the triangle, the revealed list holds a self-loop
C25_Witness ==
  /\ pc = "threw"
  /\ getEdges(graph) = Triangle
  /\ Len(proof.rounds) = 1
  /\ proof.k = 1
  /\ proof.rounds[1].commitment = createCommitment(serializeGraph(NewGraph(3, Triangle)), <<"a">>)
  /\ proof.rounds[1].response.permutedGraphEdges = <<<<0, 1>>, <<0, 0>>>>
  /\ RevealsOther(proof.rounds[1])
  /\ result.by = "verifyProof"
  /\ result.threw # NoError

\* what holds: when every revealed list is the edge list of a graph on n vertices,
\* verifyProof returns, and a proof it does not accept gets a structured rejection
C25_GraphListsNeverRaise ==
  (pc \in {"done", "threw"}
     /\ \A x \in DOMAIN proof.rounds :
          proof.rounds[x] # NoRound =>
            NewGraph(getVertexCount(graph), proof.rounds[x].response.permutedGraphEdges).error
              = NoError)
    => /\ pc = "done"
       /\ IsAccepted(result) \/ IsStructuredRejection(result)

C25_WitnessRejected ==
  /\ pc = "done"
  /\ Len(proof.rounds) = 2
  /\ NoRound \notin Range(proof.rounds)
  /\ RevealsOther(proof.rounds[2])
  /\ result = [valid |-> FALSE, failedRound |-> 2, errorType |-> CommitmentMismatch]

-----------------------------------------------------------------------------
(* SpecChallenge: the challenges main collects from generateChallenge *)

\* the values of randomBytes[0]
ByteValues == 0..255

InitChallenge ==
  /\ challenges = <<>>
  /\ local = [randomByte |-> Undefined]
  /\ pc = "challenges"
  /\ \E kk \in 1..MaxK : k = kk
  /\ graph = EmptyGraph(0)
  /\ hamiltonianCycle = <<>>
  /\ i = 0
  /\ rounds = <<>>
  /\ proof = NoProof
  /\ vi = 0
  /\ opened = <<>>
  /\ result = Pending
  /\ advRound = NoRound
  /\ advOutcome = Pending
  /\ accepted = {}
  /\ tampers = 0

\* challenges.push(verifier.generateChallenge())
PushChallenge ==
  /\ pc = "challenges"
  /\ i < k
  /\ \E randomByte \in ByteValues :
       /\ local' = [randomByte |-> randomByte]
       /\ challenges' = Append(challenges, generateChallenge(randomByte))
  /\ i' = i + 1
  /\ UNCHANGED <<graph, hamiltonianCycle, pc, k, rounds, proof, vi, opened, result, advRound,
                 advOutcome, accepted, tampers>>

NextChallenge == PushChallenge

SpecChallenge == InitChallenge /\ [][NextChallenge]_vars

\* C26: the challenge is always 0 or 1, and the challenge a byte gave is the
\* challenge of exactly half of the 256 byte values.
C26_UnbiasedChallenge ==
  /\ \A x \in DOMAIN challenges : challenges[x] \in {0, 1}
  /\ local.randomByte # Undefined =>
       2 * Cardinality({b \in ByteValues : generateChallenge(b) = challenges[Len(challenges)]})
         = Cardinality(ByteValues)

\* both challenges drawn, the second from the largest byte
C26_Witness ==
  /\ challenges = <<0, 1>>
  /\ local.randomByte = 255

C26_WitnessZero ==
  /\ challenges = <<1, 0>>
  /\ local.randomByte = 254

-----------------------------------------------------------------------------
(* SpecTwoRuns: generateProof run twice on one Prover's inputs, with the same *)
(* random draws and two challenge sequences. rounds, local and challenges    *)
(* hold the two runs' values under "a" and "b".                               *)

Runs == {"a", "b"}

\* Prover.generateCommitment, given what generateRandomPermutation and
\* createCommitment draw
generateCommitment(g, draws, salt) ==
  LET permutation == generateRandomPermutation(getVertexCount(g), draws)
      permutedGraph == applyPermutationToGraph(g, permutation)
  IN [live |-> TRUE,
      permutedGraph |-> permutedGraph,
      permutation |-> permutation,
      commitment |-> commitToGraph(permutedGraph, permutation, salt)]

InitTwoRuns ==
  /\ graph \in AdvGraphs
  /\ hamiltonianCycle \in Bijections(getVertexCount(graph))
  /\ \E kk \in 1..MaxK :
       /\ k = kk
       /\ challenges \in [Runs -> SeqsOfLen({0, 1}, kk)]
  /\ pc = "commit"
  /\ i = 0
  /\ rounds = [r \in Runs |-> <<>>]
  /\ local = [r \in Runs |-> NoLocal]
  /\ proof = NoProof
  /\ vi = 0
  /\ opened = <<>>
  /\ result = Pending
  /\ advRound = NoRound
  /\ advOutcome = Pending
  /\ accepted = {}
  /\ tampers = 0

\* a commitment made after the run's challenge is read: the graph is left
\* unpermuted when the permutation will be asked for
TwoRunsCommit_AfterChallenge(draws, salt) ==
  /\ pc = "commit"
  /\ local' = [r \in Runs |->
                 IF ArrGet(challenges[r], i) = 0
                   THEN generateCommitment(graph, [x \in DOMAIN draws |-> 0], salt)
                 ELSE generateCommitment(graph, draws, salt)]
  /\ pc' = "respond"
  /\ UNCHANGED <<graph, hamiltonianCycle, k, challenges, i, rounds, proof, vi, opened, result,
                 advRound, advOutcome, accepted, tampers>>

\* iteration i of both runs up to the call of generateCommitment; both read the
\* same draws and the same salt
TwoRunsCommit(draws, salt) ==
  /\ pc = "commit"
  /\ local' = [r \in Runs |-> generateCommitment(graph, draws, salt)]
  /\ pc' = "respond"
  /\ UNCHANGED <<graph, hamiltonianCycle, k, challenges, i, rounds, proof, vi, opened, result,
                 advRound, advOutcome, accepted, tampers>>

\* the rest of iteration i of both runs: each reads its own challenges[i]
TwoRunsRespond ==
  /\ pc = "respond"
  /\ IF \E r \in Runs : \/ ArrGet(challenges[r], i) = Undefined
                        \/ local[r].permutedGraph.error # NoError
                        \/ RespondThrows(hamiltonianCycle, ArrGet(challenges[r], i),
                                         local[r].permutation)
       THEN /\ pc' = "threw"
            /\ UNCHANGED <<rounds, i>>
     ELSE /\ rounds' = [r \in Runs |->
                          Append(rounds[r],
                                 [commitment |-> local[r].commitment,
                                  response |-> respondToChallenge(hamiltonianCycle,
                                                                  ArrGet(challenges[r], i),
                                                                  local[r].permutedGraph,
                                                                  local[r].permutation)])]
          /\ i' = i + 1
          /\ pc' = IF i + 1 < k THEN "commit" ELSE "proved"
  /\ local' = [r \in Runs |-> LocalsAfterRound(local[r])]
  /\ UNCHANGED <<graph, hamiltonianCycle, k, challenges, proof, vi, opened, result,
                 advRound, advOutcome, accepted, tampers>>

NextTwoRuns ==
  \/ \E draws \in RandomDraws(getVertexCount(graph)), salt \in Salts : TwoRunsCommit(draws, salt)
  \/ TwoRunsRespond

SpecTwoRuns == InitTwoRuns /\ [][NextTwoRuns]_vars

C27_WitnessBeforeRead ==
  /\ pc = "respond"
  /\ i = 0
  /\ challenges["a"][1] # challenges["b"][1]
  /\ local["a"].permutation = <<2, 0, 1>>
  /\ local["a"].commitment = local["b"].commitment

-----------------------------------------------------------------------------
(* SpecDishonest: a Prover constructed with any vertex sequence answers        *)
(* challenge 1 in a one-round proof, and the Verifier verifies it              *)

\* the square 0-1-2-3-0
Square == NewGraph(4, <<<<0, 1>>, <<1, 2>>, <<2, 3>>, <<0, 3>>>>)

\* vertex sequences handed to the Prover's constructor: any length up to n+1 with
\* vertices outside [0,n) on the small graphs, any length up to n on the square
ProverCycles(g) ==
  LET n == getVertexCount(g)
  IN IF n <= MaxN THEN SeqsUpTo((-1)..n, n + 1) ELSE SeqsUpTo(0..(n - 1), n)

InitDishonest ==
  /\ graph \in AdvGraphs \cup {Square}
  /\ hamiltonianCycle \in ProverCycles(graph)
  /\ pc = "commit"
  /\ k = 1
  /\ challenges = <<1>>
  /\ i = 0
  /\ rounds = <<>>
  /\ local = NoLocal
  /\ proof = NoProof
  /\ vi = 0
  /\ opened = <<>>
  /\ result = Pending
  /\ advRound = NoRound
  /\ advOutcome = Pending
  /\ accepted = {}
  /\ tampers = 0

NextDishonest ==
  \/ \E draws \in RandomDraws(getVertexCount(graph)), salt \in Salts :
       GenerateCommitment(draws, salt)
  \/ RespondToChallenge
  \/ CallVerifyProof
  \/ VerifyNextRound

SpecDishonest == InitDishonest /\ [][NextDishonest]_vars

\* cycle is a Hamiltonian cycle of g: n distinct vertices of g, consecutive ones
\* (the last and the first included) adjacent
IsHamiltonianCycleOf(cycle, g) ==
  LET n == getVertexCount(g)
  IN /\ Len(cycle) = n
     /\ Range(cycle) = 0..(n - 1)
     /\ \A x \in 1..n : {cycle[x], cycle[(x % n) + 1]} \in EdgeSetOf(getEdges(g))

\* C28: a Prover constructed with a vertex sequence that is not a Hamiltonian
\* cycle of G never has a challenge-1 round accepted: whatever the permutation,
\* the round is rejected, or producing it raises an error.
C28_InvalidCycleNeverAccepted ==
  ~IsHamiltonianCycleOf(hamiltonianCycle, graph) =>
     /\ ~IsAccepted(result)
     /\ pc = "threw" => result.by = "generateProof"
     /\ pc = "done" => (result.valid = FALSE /\ result.failedRound = 1)

\* on the square, 0 2 1 3 is a Hamiltonian cycle of the permuted graph but not of
\* G; the round built from it is rejected, its edges being absent from G'
C28_Witness ==
  /\ pc = "done"
  /\ graph = Square
  /\ hamiltonianCycle = <<0, 2, 1, 3>>
  /\ IsHamiltonianCycleOf(hamiltonianCycle,
                          NewGraph(4, proof.rounds[1].response.permutedGraphEdges))
  /\ result = [valid |-> FALSE, failedRound |-> 1, errorType |-> EdgeNotInCommittedGraph]

\* a repeated vertex
C28_WitnessRepeated ==
  /\ pc = "done"
  /\ getEdges(graph) = Triangle
  /\ hamiltonianCycle = <<0, 1, 0>>
  /\ result.valid = FALSE

\* a vertex outside [0,n): applyPermutationToCycle raises
C28_WitnessRaised ==
  /\ pc = "threw"
  /\ getEdges(graph) = Triangle
  /\ hamiltonianCycle = <<0, 1, 3>>
  /\ result.by = "generateProof"

\* a wrong length
C28_WitnessLength ==
  /\ pc = "done"
  /\ getEdges(graph) = Triangle
  /\ hamiltonianCycle = <<0, 1, 2, 0>>
  /\ result = [valid |-> FALSE, failedRound |-> 1, errorType |-> WrongCycleEdgeCount]

\* and a Hamiltonian cycle of the square is accepted
C28_WitnessAccepted ==
  /\ pc = "done"
  /\ graph = Square
  /\ hamiltonianCycle = <<1, 0, 3, 2>>
  /\ IsAccepted(result)

-----------------------------------------------------------------------------
(* Claims about isIsomorphicTo on arbitrary arrays (SpecUtil) *)

\* C29: isIsomorphicTo(other, permutation) returns false for every permutation
\* that is not a bijection on [0,n), a permutation of n distinct values of which
\* some lie outside [0,n) included. In the code the length and the number of
\* distinct values are checked, the range is not: a value outside [0,n) at a
\* vertex no edge touches goes unnoticed.
C29_NonBijectionNotIsomorphic ==
  (pc = "compared" /\ ~IsBijection(local.permutation, getVertexCount(graph)))
    => ~result.value.isomorphic

\* the graph with the edge (0,1) on three vertices against itself, vertex 2 sent to 3
C29_Witness ==
  /\ pc = "compared"
  /\ getVertexCount(graph) = 3
  /\ getEdges(graph) = <<<<0, 1>>>>
  /\ result.value.other = graph
  /\ local.permutation = <<1, 0, 3>>
  /\ result.value.isomorphic

\* what is rejected: a wrong length, a repeated value, and a value outside [0,n)
\* at a vertex that an edge of the graph touches
C29_WhatIsRejected ==
  LET n == getVertexCount(graph)
      perm == local.permutation
  IN (pc = "compared"
        /\ \/ Len(perm) # n
           \/ Cardinality(Range(perm)) # n
           \/ \E e \in Range(getEdges(graph)) :
                perm[e[1] + 1] \notin 0..(n - 1) \/ perm[e[2] + 1] \notin 0..(n - 1))
       => ~result.value.isomorphic

C29_WitnessRepeated ==
  /\ pc = "compared"
  /\ getVertexCount(graph) = 2
  /\ getEdges(graph) = <<>>
  /\ result.value.other = graph
  /\ local.permutation = <<0, 0>>
  /\ ~result.value.isomorphic

-----------------------------------------------------------------------------
(* Claims about the order of the revealed edge list (Spec) *)

\* C30: in both challenge branches the revealed G' edge list follows G's edge
\* order: its element x is the pair (pi(u), pi(v)), smaller endpoint first, of
\* the x-th edge (u, v) of the original graph. Two permutations that give the
\* same edge set can therefore give different revealed sequences (witness).
C30_RevealedInOriginalOrder ==
  [][(pc = "respond" /\ pc' \in {"commit", "proved"}) =>
       LET revealed == rounds'[Len(rounds')].response.permutedGraphEdges
           original == getEdges(graph)
       IN /\ rounds'[Len(rounds')].response.type = ArrGet(challenges, i)
          /\ Len(revealed) = Len(original)
          /\ \A x \in DOMAIN original :
               revealed[x] = MinMax(ArrGet(local.permutation, original[x][1]),
                                    ArrGet(local.permutation, original[x][2]))
    ]_vars

\* two rounds on the triangle, one of each type, reveal the same edge set in
\* different orders
C30_Witness ==
  /\ pc = "proved"
  /\ Len(proof.rounds) = 2
  /\ challenges = <<0, 1>>
  /\ getEdges(graph) = <<<<0, 1>>, <<0, 2>>, <<1, 2>>>>
  /\ proof.rounds[1].response.permutation = <<1, 0, 2>>
  /\ proof.rounds[1].response.permutedGraphEdges = <<<<0, 1>>, <<1, 2>>, <<0, 2>>>>
  /\ proof.rounds[2].response.permutedGraphEdges = <<<<0, 1>>, <<0, 2>>, <<1, 2>>>>
  /\ EdgeSetOf(proof.rounds[1].response.permutedGraphEdges)
       = EdgeSetOf(proof.rounds[2].response.permutedGraphEdges)

-----------------------------------------------------------------------------
(* C31: malformed revealed lists, under SpecVerify *)

IsMalformedList(edges, n) ==
  \E x \in DOMAIN edges : IsSelfLoop(edges[x]) \/ IsOutOfRange(edges[x], n)

MalformedRounds ==
  {x \in DOMAIN proof.rounds :
     /\ proof.rounds[x] # NoRound
     /\ IsMalformedList(proof.rounds[x].response.permutedGraphEdges, getVertexCount(graph))}

\* the rounds whose permutation check returns before the revealed list is read
StoppedAtPermutation ==
  {x \in MalformedRounds :
     /\ proof.rounds[x].response.type = 0
     /\ ~IsBijection(proof.rounds[x].response.permutation, getVertexCount(graph))}

Raises(outcome) == outcome.threw \in {"Self-loops are not allowed", "Vertex out of range"}

C31_WitnessSelfLoop ==
  /\ pc = "threw"
  /\ Len(proof.rounds) = 1
  /\ proof.rounds[1].response.type = 0
  /\ proof.rounds[1].response.permutation = <<1, 0, 2>>
  /\ proof.rounds[1].response.permutedGraphEdges = <<<<0, 1>>, <<0, 0>>>>
  /\ result.threw = "Self-loops are not allowed"

\* the same list behind a permutation with a repeated value: a returned rejection
C31_WitnessStopped ==
  /\ pc = "done"
  /\ Len(proof.rounds) = 1
  /\ 1 \in StoppedAtPermutation
  /\ result = [valid |-> FALSE, failedRound |-> 1, errorType |-> InvalidPermutation]

-----------------------------------------------------------------------------
(* C32: the numbering of failedRound, under SpecVerify *)

\* the position, counted from 0 as proof.rounds is indexed in the code, of the
\* round verifyProof stopped at
StoppedAtPosition == vi

\* C32: failedRound is 1-based for round failures (a rejection of the round at
\* position i of proof.rounds reports failedRound = i+1) and is 0 only for a
\* round-count mismatch, so the two kinds of rejection are always distinguishable;
\* failedRound is present in every reject result and absent in every accept result.
C32_FailedRoundNumbering ==
  pc = "done" =>
    IF result.valid
      THEN DOMAIN result = {"valid"}
      ELSE /\ "failedRound" \in DOMAIN result
           /\ result.failedRound = 0 <=> Len(proof.rounds) # proof.k
           /\ result.failedRound = 0 <=> result.errorType = RoundCountMismatch
           /\ result.failedRound # 0 =>
                /\ result.failedRound = StoppedAtPosition + 1
                /\ result.failedRound \in 1..Len(proof.rounds)
                /\ RoundOutcome(result.failedRound) = Reject(result.errorType)
                /\ \A x \in 1..(result.failedRound - 1) : RoundOutcome(x) = Accept

\* the second of two rounds, at position 1, is rejected: failedRound = 2
C32_Witness ==
  /\ pc = "done"
  /\ proof.k = 2
  /\ Len(proof.rounds) = 2
  /\ StoppedAtPosition = 1
  /\ RoundOutcome(1) = Accept
  /\ result = [valid |-> FALSE, failedRound |-> 2, errorType |-> RoundOutcome(2).errorType]

\* a round-count mismatch on a proof whose first round would be rejected: 0, not 1
C32_WitnessMismatch ==
  /\ pc = "done"
  /\ proof.k = 2
  /\ Len(proof.rounds) = 1
  /\ RoundOutcome(1) = Reject(CommitmentMismatch)
  /\ result = [valid |-> FALSE, failedRound |-> 0, errorType |-> RoundCountMismatch]

C32_WitnessAccepted ==
  /\ pc = "done"
  /\ proof.k = 2
  /\ Len(proof.rounds) = 2
  /\ result = [valid |-> TRUE]

-----------------------------------------------------------------------------
(* C33: adjacency, edge list and vertex count of a constructed Graph, under   *)
(* SpecGraph                                                                  *)

\* the vertex arguments hasEdge is asked about: every vertex, and one on each side
\* outside the range
AskedVertices == (-1)..MaxN

AdjacencyAgreesWithEdges ==
  \A u, v \in AskedVertices :
    /\ hasEdge(graph, u, v) = hasEdge(graph, v, u)
    /\ hasEdge(graph, u, v) <=> MinMax(u, v) \in Range(getEdges(graph))

\* C33: in every constructed Graph hasEdge(u,v) = hasEdge(v,u) for all u, v;
\* hasEdge(u,v) is true if and only if the normalized pair of {u,v} occurs in
\* getEdges(); and getVertexCount() equals the vertexCount given at construction.
\* In the code a negative vertexCount constructs a graph whose getVertexCount() is 0.
C33_AdjacencyAndCount ==
  pc = "constructed" =>
    /\ AdjacencyAgreesWithEdges
    /\ getVertexCount(graph) = local.vertexCount

\* new Graph({vertexCount: -1, edges: []})
C33_Witness ==
  /\ pc = "constructed"
  /\ local.vertexCount = -1
  /\ local.edges = <<>>
  /\ getVertexCount(graph) = 0

\* what holds: adjacency and edge list agree in every constructed Graph, and the
\* count is the one given whenever that one is not negative
C33_AgreeAndCountWhenNatural ==
  pc = "constructed" =>
    /\ AdjacencyAgreesWithEdges
    /\ local.vertexCount >= 0 => getVertexCount(graph) = local.vertexCount
    /\ local.vertexCount < 0 => getVertexCount(graph) = 0

C33_WitnessAgree ==
  /\ pc = "constructed"
  /\ local.vertexCount = 3
  /\ local.edges = <<<<2, 0>>, <<0, 1>>>>
  /\ hasEdge(graph, 0, 2) /\ hasEdge(graph, 2, 0)
  /\ ~hasEdge(graph, 1, 2)
  /\ getEdges(graph) = <<<<0, 2>>, <<0, 1>>>>

-----------------------------------------------------------------------------
(* utils/crypto.ts: modular exponentiation and the RSA operations built on it *)

\* the while loop of fastExpMod: y, s, x after each iteration
RECURSIVE fastExpModLoop(_, _, _, _)
fastExpModLoop(y, s, x, p) ==
  IF x > 0
    THEN fastExpModLoop(IF x % 2 = 1 THEN (y * s) % p ELSE y, (s * s) % p, x \div 2, p)
    ELSE y

\* a loop that multiplies by the unsquared base at every set bit
fastExpMod_NoSquaring(a, x, p) ==
  LET RECURSIVE Loop(_, _)
      Loop(y, xx) == IF xx > 0
                       THEN Loop(IF xx % 2 = 1 THEN (y * (a % p)) % p ELSE y, xx \div 2)
                       ELSE y
  IN Loop(1, x)

fastExpMod(a, x, p) == fastExpModLoop(1, a % p, x, p)

rsaEncrypt(message, e, N) == fastExpMod(message, e, N)

rsaDecrypt(ciphertext, d, N) == fastExpMod(ciphertext, d, N)

-----------------------------------------------------------------------------
(* SpecExp: fastExpMod on small arguments *)

MaxBase == 8
MaxExponent == 6
MaxModulus == 7

InitExp ==
  /\ \E a \in 0..MaxBase, x \in 0..MaxExponent, p \in 1..MaxModulus :
       local = [a |-> a, x |-> x, p |-> p]
  /\ pc = "input"
  /\ result = Pending
  /\ graph = EmptyGraph(0)
  /\ hamiltonianCycle = <<>>
  /\ k = 0
  /\ challenges = <<>>
  /\ i = 0
  /\ rounds = <<>>
  /\ proof = NoProof
  /\ vi = 0
  /\ opened = <<>>
  /\ advRound = NoRound
  /\ advOutcome = Pending
  /\ accepted = {}
  /\ tampers = 0

\* fastExpMod(a, x, p)
CallFastExpMod ==
  /\ pc = "input"
  /\ result' = [value |-> fastExpMod(local.a, local.x, local.p)]
  /\ pc' = "returned"
  /\ UNCHANGED <<graph, hamiltonianCycle, k, challenges, i, rounds, local, proof, vi, opened,
                 advRound, advOutcome, accepted, tampers>>

NextExp == CallFastExpMod

SpecExp == InitExp /\ [][NextExp]_vars

\* a^x by repeated multiplication
RECURSIVE Power(_, _)
Power(a, x) == IF x = 0 THEN 1 ELSE a * Power(a, x - 1)

\* C35: fastExpMod(a, x, p) equals a^x mod p for all integers a >= 0, x >= 0 and
\* p >= 1, including x = 0 and p = 1, where the result must be 0. In the code the
\* loop does not run for x = 0 and the initial y = 1 is returned unreduced.
C35_FastExpModIsPowerMod ==
  pc = "returned" => result.value = Power(local.a, local.x) % local.p

\* fastExpMod(5, 0, 1) returns 1
C35_Witness ==
  /\ pc = "returned"
  /\ local = [a |-> 5, x |-> 0, p |-> 1]
  /\ result.value = 1

\* what holds: the result is a^x mod p except for x = 0 with p = 1
C35_PowerModExceptModulusOne ==
  pc = "returned" =>
    result.value = IF local.x = 0 /\ local.p = 1 THEN 1
                   ELSE Power(local.a, local.x) % local.p

C35_WitnessPower ==
  /\ pc = "returned"
  /\ local = [a |-> 8, x |-> 6, p |-> 7]
  /\ result.value = 1

C35_WitnessModulusOne ==
  /\ pc = "returned"
  /\ local = [a |-> 3, x |-> 5, p |-> 1]
  /\ result.value = 0

-----------------------------------------------------------------------------
(* utils/crypto.ts: RSA keys; utils/matrix.ts: the blinded adjacency matrix   *)

RECURSIVE gcd(_, _)
gcd(a, b) == IF b # 0 THEN gcd(b, a % b) ELSE a

\* the while loop of modInverse on (aBig, mBig, x0, x1); returns x1
RECURSIVE modInverseLoop(_, _, _, _)
modInverseLoop(aBig, mBig, x0, x1) ==
  IF aBig > 1
    THEN modInverseLoop(mBig, aBig % mBig, x1 - (aBig \div mBig) * x0, x0)
    ELSE x1

modInverse(a, m) ==
  IF m = 1 THEN 0
  ELSE LET x1 == modInverseLoop(a, m, 0, 1)
       IN IF x1 < 0 THEN x1 + m ELSE x1

PublicExponent == 65537

\* the search `e = 3n; while (e < phiN && gcd(e, phiN) !== 1n) e += 2n`
RECURSIVE NextExponent(_, _)
NextExponent(e, phiN) ==
  IF e < phiN /\ gcd(e, phiN) # 1 THEN NextExponent(e + 2, phiN) ELSE e

\* generateRSAKeys once generatePrime has returned the primes p and q, p # q
generateRSAKeys(p, q) ==
  LET N == p * q
      phiN == (p - 1) * (q - 1)
      e == IF PublicExponent >= phiN \/ gcd(PublicExponent, phiN) # 1
             THEN NextExponent(3, phiN) ELSE PublicExponent
  IN [N |-> N, e |-> e, d |-> modInverse(e, phiN), p |-> p, q |-> q]

\* a matrix is a sequence of rows; m[i][j] of the code is m[i + 1][j + 1]
MatrixOf(n, Entry(_, _)) == [x \in 1..n |-> [y \in 1..n |-> Entry(x - 1, y - 1)]]

HasRow(m, x) == x \in 0..(Len(m) - 1)
HasCell(m, x, y) == HasRow(m, x) /\ y \in 0..(Len(m[x + 1]) - 1)
Cell(m, x, y) == m[x + 1][y + 1]

getAdjacencyMatrix(g) ==
  MatrixOf(getVertexCount(g), LAMBDA x, y : IF hasEdge(g, x, y) THEN 1 ELSE 0)

\* encodeMatrixWithRandom, given the random numbers r_ij it drew: r_ij * 2 + H_ij;
\* a missing element of a row reads as 0
encodeMatrixWithRandom(matrix, randomNumbers) ==
  LET n == Len(matrix)
  IN [encodedMatrix |->
        MatrixOf(n, LAMBDA x, y :
                      Cell(randomNumbers, x, y) * 2
                        + (IF HasCell(matrix, x, y) THEN Cell(matrix, x, y) ELSE 0)),
      randomNumbers |-> randomNumbers]

\* decodeMatrix: H_ij = H'_ij mod 2; it throws on a missing element
decodeMatrix(encodedMatrix) ==
  LET n == Len(encodedMatrix)
  IN IF \E x, y \in 0..(n - 1) : ~HasCell(encodedMatrix, x, y)
       THEN [error |-> "Encoded matrix value is undefined", matrix |-> <<>>]
       ELSE [error |-> NoError,
             matrix |-> MatrixOf(n, LAMBDA x, y : Cell(encodedMatrix, x, y) % 2)]

\* encryptMatrix: F_ij = (H'_ij)^d mod N
encryptMatrix(encodedMatrix, keys) ==
  MatrixOf(Len(encodedMatrix),
           LAMBDA x, y : rsaEncrypt(Cell(encodedMatrix, x, y), keys.d, keys.N))

\* decryptMatrix: H'_ij = (F_ij)^e mod N
decryptMatrix(encryptedMatrix, keys) ==
  MatrixOf(Len(encryptedMatrix),
           LAMBDA x, y : rsaDecrypt(Cell(encryptedMatrix, x, y), keys.e, keys.N))

\* verifyDecryption: every F_ij equals (H'_ij)^d mod N
verifyDecryption(decryptedMatrix, encryptedMatrix, keys) ==
  LET n == Len(decryptedMatrix)
  IN /\ Len(encryptedMatrix) = n
     /\ \A x \in 1..n : Len(decryptedMatrix[x]) = n /\ Len(encryptedMatrix[x]) = n
     /\ \A x, y \in 0..(n - 1) :
          rsaEncrypt(Cell(decryptedMatrix, x, y), keys.d, keys.N) = Cell(encryptedMatrix, x, y)

-----------------------------------------------------------------------------
(* The RSA-matrix variant of the Verifier *)

MissingRow == "MissingRow"
MissingElement == "MissingElement"
DecryptionMismatch == "DecryptionMismatch"
MissingDecryptedValue == "MissingDecryptedValue"
EdgeAbsent == "EdgeAbsent"

\* reconstructGraphFromMatrix: the pairs (x, y), x < y, with row[y] === 1, rows ascending
RECURSIVE MatrixEdges(_, _, _, _)
MatrixEdges(adjacencyMatrix, vertexCount, x, y) ==
  IF x >= vertexCount THEN <<>>
  ELSE IF y >= vertexCount \/ ~HasRow(adjacencyMatrix, x)
    THEN MatrixEdges(adjacencyMatrix, vertexCount, x + 1, x + 2)
  ELSE (IF HasCell(adjacencyMatrix, x, y) /\ Cell(adjacencyMatrix, x, y) = 1
          THEN <<<<x, y>>>> ELSE <<>>)
       \o MatrixEdges(adjacencyMatrix, vertexCount, x, y + 1)

reconstructGraphFromMatrix(adjacencyMatrix, vertexCount) ==
  NewGraph(vertexCount, MatrixEdges(adjacencyMatrix, vertexCount, 0, 1))

\* the first cell, in row-major order, at which the re-encryption loop of a type-0
\* round returns; <<>> when the loop runs to its end
RECURSIVE FirstFailingCell(_, _, _, _, _, _)
FirstFailingCell(decryptedMatrix, matrix, e, N, n, c) ==
  IF c >= n * n THEN <<>>
  ELSE LET x == c \div n
           y == c % n
       IN IF ~HasRow(decryptedMatrix, x) \/ ~HasRow(matrix, x) THEN <<MissingRow>>
          ELSE IF ~HasCell(decryptedMatrix, x, y) \/ ~HasCell(matrix, x, y)
            THEN <<MissingElement>>
          ELSE IF rsaEncrypt(Cell(matrix, x, y), e, N) # Cell(decryptedMatrix, x, y)
            THEN <<DecryptionMismatch>>
          ELSE FirstFailingCell(decryptedMatrix, matrix, e, N, n, c + 1)

\* decryptedMap.get(`${u},${v}`): the value of the last element with i = u, j = v
DecryptedValueOf(elements, u, v) ==
  LET hits == {x \in DOMAIN elements : elements[x].i = u /\ elements[x].j = v}
  IN IF hits = {} THEN Undefined
     ELSE elements[CHOOSE x \in hits : \A z \in hits : z <= x].value

\* the loop over cycleEdges of a type-1 round; <<>> when it runs to its end
RECURSIVE FirstFailingEdge(_, _, _, _, _)
FirstFailingEdge(cycleEdges, elements, matrix, e, N) ==
  IF cycleEdges = <<>> THEN <<>>
  ELSE LET u == Head(cycleEdges)[1]
           v == Head(cycleEdges)[2]
           decryptedValue == DecryptedValueOf(elements, u, v)
       IN IF decryptedValue = Undefined THEN <<MissingDecryptedValue>>
          ELSE IF ~HasRow(matrix, u) THEN <<MissingRow>>
          ELSE IF ~HasCell(matrix, u, v) THEN <<MissingElement>>
          ELSE IF rsaEncrypt(Cell(matrix, u, v), e, N) # decryptedValue
            THEN <<DecryptionMismatch>>
          ELSE IF decryptedValue % 2 # 1 THEN <<EdgeAbsent>>
          ELSE FirstFailingEdge(Tail(cycleEdges), elements, matrix, e, N)

\* the range test and the self-loop test of the loop over cycleEdges
IsOutsideRange(edge, n) == edge[1] < 0 \/ edge[1] >= n \/ edge[2] < 0 \/ edge[2] >= n
RefusedEdges(cycleEdges, n) ==
  {x \in DOMAIN cycleEdges :
     IsOutsideRange(cycleEdges[x], n) \/ cycleEdges[x][1] = cycleEdges[x][2]}

\* Verifier.verifyRound of the variant; the position an errorType names is left out
verifyRoundMatrix(proofRound, originalGraph) ==
  LET matrix == proofRound.encryptedMatrix.matrix
      N == proofRound.encryptedMatrix.publicKey.N
      e == proofRound.encryptedMatrix.publicKey.e
      response == proofRound.response
      n == getVertexCount(originalGraph)
  IN IF response.type = 0
       THEN IF ~isValidPermutation(response.permutation, n) THEN Reject(InvalidPermutation)
            ELSE LET failed == FirstFailingCell(response.decryptedMatrix, matrix, e, N, n, 0)
                 IN IF failed # <<>> THEN Reject(failed[1])
                    ELSE LET decoded == decodeMatrix(response.decryptedMatrix)
                         IN IF decoded.error # NoError THEN Throw(decoded.error)
                            ELSE IF ~isIsomorphicTo(originalGraph,
                                                    reconstructGraphFromMatrix(decoded.matrix, n),
                                                    response.permutation)
                              THEN Reject(IsomorphismMismatch)
                            ELSE Accept
     ELSE IF Len(response.cycleEdges) # n THEN Reject(WrongCycleEdgeCount)
     ELSE IF RefusedEdges(response.cycleEdges, n) # {}
       THEN LET first == CHOOSE x \in RefusedEdges(response.cycleEdges, n) :
                           \A z \in RefusedEdges(response.cycleEdges, n) : x <= z
            IN IF IsOutsideRange(response.cycleEdges[first], n)
                 THEN Reject(EdgeOutOfRange) ELSE Reject(SelfLoop)
     ELSE LET failed == FirstFailingEdge(response.cycleEdges, response.decryptedCycleElements,
                                         matrix, e, N)
          IN IF failed # <<>> THEN Reject(failed[1])
             ELSE IF edgesToCycle(response.cycleEdges, n).null THEN Reject(EdgesDoNotFormCycle)
             ELSE Accept

-----------------------------------------------------------------------------
(* SpecMatrix: a prover without regard for the protocol hands the variant's   *)
(* Verifier one encrypted matrix F with its public key and looks for a type-0 *)
(* and a type-1 response that verifyRound accepts against that F.             *)

MatrixPrimeP == 3
MatrixPrimeQ == 11
MatrixVertices == 3
BlindingNumber == 1

MatrixKeys == generateRSAKeys(MatrixPrimeP, MatrixPrimeQ)

MatrixGraphs == {NewGraph(MatrixVertices, Path), NewGraph(MatrixVertices, Triangle)}

OffDiagonal == {c \in (0..(MatrixVertices - 1)) \X (0..(MatrixVertices - 1)) : c[1] # c[2]}

\* the matrices F: the encryption of any 0/1 matrix with a zero diagonal, blinded;
\* the entry (y, x) is chosen apart from the entry (x, y)
EncryptedMatrices ==
  {encryptMatrix(MatrixOf(MatrixVertices,
                          LAMBDA x, y : BlindingNumber * 2
                                          + (IF x = y THEN 0 ELSE bits[<<x, y>>])),
                 MatrixKeys) : bits \in [OffDiagonal -> {0, 1}]}

InitMatrix ==
  /\ graph \in MatrixGraphs
  /\ \E F \in EncryptedMatrices :
       local = [matrix |-> F,
                publicKey |-> [N |-> MatrixKeys.N, e |-> MatrixKeys.e]]
  /\ pc = "committed"
  /\ accepted = {}
  /\ advOutcome = Pending
  /\ hamiltonianCycle = <<>>
  /\ k = 0
  /\ challenges = <<>>
  /\ i = 0
  /\ rounds = <<>>
  /\ proof = NoProof
  /\ vi = 0
  /\ opened = <<>>
  /\ result = Pending
  /\ advRound = NoRound
  /\ tampers = 0

\* the decrypted matrices a type-0 response may carry: the decryption of F, that
\* with the last bit of the entry (0,1) flipped, and that without its last row
DecryptedMatrices(F) ==
  LET honest == decryptMatrix(F, MatrixKeys)
  IN {honest,
      [honest EXCEPT ![1][2] = IF @ % 2 = 0 THEN @ + 1 ELSE @ - 1],
      SubSeq(honest, 1, Len(honest) - 1)}

Type0Responses(F) ==
  {[type |-> 0, permutation |-> perm, decryptedMatrix |-> dm] :
     perm \in Bijections(MatrixVertices) \cup {<<0, 0, 1>>}, dm \in DecryptedMatrices(F)}

\* the lists a type-1 response may carry: n or n - 1 ordered pairs of two vertices,
\* a list with a self-loop and a list with a pair that leaves the range
MatrixCycleLists ==
  SeqsOfLen(OffDiagonal, MatrixVertices) \cup SeqsOfLen(OffDiagonal, MatrixVertices - 1)
    \cup {<<<<0, 1>>, <<1, 2>>, <<0, 0>>>>, <<<<0, 1>>, <<1, 2>>, <<0, MatrixVertices>>>>}

\* the decryption of the entries of F the response lists, as (i, j, value)
ElementsFor(F, cycleEdges) ==
  [x \in DOMAIN cycleEdges |->
     [i |-> cycleEdges[x][1], j |-> cycleEdges[x][2],
      value |-> IF HasCell(F, cycleEdges[x][1], cycleEdges[x][2])
                  THEN rsaDecrypt(Cell(F, cycleEdges[x][1], cycleEdges[x][2]),
                                  MatrixKeys.e, MatrixKeys.N)
                  ELSE 1]]

\* type-1 responses: a list with the decrypted values of the listed entries, or
\* with the first value raised by one
Type1Responses(F) ==
  UNION {{[type |-> 1, cycleEdges |-> ce, decryptedCycleElements |-> ElementsFor(F, ce)]}
          \cup {[type |-> 1, cycleEdges |-> ce,
                  decryptedCycleElements |-> [ElementsFor(F, ce) EXCEPT ![1].value = @ + 1]]}
         : ce \in MatrixCycleLists}

\* verifier.verifyRound({encryptedMatrix, response}, graph) on one response; the
\* prover keeps the first response of each type that is accepted
SubmitResponse(response) ==
  LET outcome == verifyRoundMatrix([encryptedMatrix |-> local, response |-> response], graph)
  IN /\ advOutcome' = outcome
     /\ accepted' = IF outcome = Accept THEN accepted \cup {response} ELSE accepted
     /\ UNCHANGED <<graph, hamiltonianCycle, pc, k, challenges, i, rounds, local, proof, vi,
                    opened, result, advRound, tampers>>

SubmitType0 ==
  /\ pc = "committed"
  /\ \A r \in accepted : r.type # 0
  /\ \E response \in Type0Responses(local.matrix) : SubmitResponse(response)

SubmitType1 ==
  /\ pc = "committed"
  /\ \A r \in accepted : r.type # 1
  /\ \E response \in Type1Responses(local.matrix) : SubmitResponse(response)

NextMatrix == SubmitType0 \/ SubmitType1

SpecMatrix == InitMatrix /\ [][NextMatrix]_vars

AcceptedOfType(type) == {r \in accepted : r.type = type}

\* C34: single-round soundness of the RSA-matrix variant: for a graph G with no
\* Hamiltonian cycle and any one encrypted matrix F with its public key, there is no
\* pair of responses, one of type 0 and one of type 1, that verifyRound both accepts
\* against that same F. In the code the type-0 check reads only the entries above
\* the diagonal and the type-1 check reads F at (u,v) as the pair is written, so
\* an F whose lower triangle holds an edge the upper triangle lacks passes both.
C34_SingleRoundSoundness ==
  ~HasHamiltonianCycle(graph) => (AcceptedOfType(0) = {} \/ AcceptedOfType(1) = {})

\* G is the path 0-1-2; F is the path above the diagonal and has (2,0) below it
C34_Witness ==
  /\ getEdges(graph) = Path
  /\ ~HasHamiltonianCycle(graph)
  /\ \E r \in AcceptedOfType(0) : r.permutation = <<0, 1, 2>>
  /\ \E r \in AcceptedOfType(1) : r.cycleEdges = <<<<0, 1>>, <<1, 2>>, <<2, 0>>>>
  /\ decodeMatrix(decryptMatrix(local.matrix, MatrixKeys)).matrix
       = <<<<0, 1, 0>>, <<0, 0, 1>>, <<1, 0, 0>>>>

\* what holds: without a Hamiltonian cycle in G, a type-1 response accepted beside
\* a type-0 response lists some pair (u,v) with u > v
C34_SoundAboveDiagonal ==
  (~HasHamiltonianCycle(graph) /\ AcceptedOfType(0) # {}) =>
     \A r \in AcceptedOfType(1) : \E x \in DOMAIN r.cycleEdges : r.cycleEdges[x][1] > r.cycleEdges[x][2]

\* the triangle, its matrix and its cycle: both responses accepted
C34_WitnessHonest ==
  /\ getEdges(graph) = Triangle
  /\ AcceptedOfType(0) # {}
  /\ \E r \in AcceptedOfType(1) : r.cycleEdges = <<<<0, 1>>, <<1, 2>>, <<0, 2>>>>

-----------------------------------------------------------------------------
(* SpecBlind: the honest chain encode, decode, encrypt, decrypt, verify on    *)
(* small matrices, random numbers and keys                                    *)

MaxMatrixSize == 2
MaxRandom == 2

\* the primes generatePrime may have returned, p # q
PrimePairs == {<<3, 11>>, <<5, 7>>, <<5, 11>>}

SquareMatrices(n, entries) ==
  {MatrixOf(n, LAMBDA x, y : f[<<x, y>>]) :
     f \in [(0..(n - 1)) \X (0..(n - 1)) -> entries]}

InitBlind ==
  /\ \E n \in 0..MaxMatrixSize :
       \E M \in SquareMatrices(n, {0, 1}), r \in SquareMatrices(n, 0..MaxRandom),
          pq \in PrimePairs :
         local = [matrix |-> M, randomNumbers |-> r, keys |-> generateRSAKeys(pq[1], pq[2]),
                  encodedMatrix |-> <<>>, decoded |-> <<>>, encryptedMatrix |-> <<>>,
                  decryptedMatrix |-> <<>>]
  /\ pc = "input"
  /\ result = Pending
  /\ graph = EmptyGraph(0)
  /\ hamiltonianCycle = <<>>
  /\ k = 0
  /\ challenges = <<>>
  /\ i = 0
  /\ rounds = <<>>
  /\ proof = NoProof
  /\ vi = 0
  /\ opened = <<>>
  /\ advRound = NoRound
  /\ advOutcome = Pending
  /\ accepted = {}
  /\ tampers = 0

BlindStep(from, to, field, value) ==
  /\ pc = from
  /\ pc' = to
  /\ local' = [local EXCEPT ![field] = value]
  /\ UNCHANGED <<graph, hamiltonianCycle, k, challenges, i, rounds, proof, vi, opened,
                 result, advRound, advOutcome, accepted, tampers>>

\* encodeMatrixWithRandom(matrix), with the r_ij it drew
CallEncodeMatrix ==
  BlindStep("input", "encoded", "encodedMatrix",
            encodeMatrixWithRandom(local.matrix, local.randomNumbers).encodedMatrix)

\* decodeMatrix(encodedMatrix)
CallDecodeMatrix ==
  BlindStep("encoded", "decoded", "decoded", decodeMatrix(local.encodedMatrix))

\* encryptMatrix(encodedMatrix, keys)
CallEncryptMatrix ==
  BlindStep("decoded", "encrypted", "encryptedMatrix",
            encryptMatrix(local.encodedMatrix, local.keys))

\* decryptMatrix(encryptedMatrix, keys)
CallDecryptMatrix ==
  BlindStep("encrypted", "decrypted", "decryptedMatrix",
            decryptMatrix(local.encryptedMatrix, local.keys))

\* verifyDecryption(decryptedMatrix, encryptedMatrix, keys)
CallVerifyDecryption ==
  /\ pc = "decrypted"
  /\ pc' = "verified"
  /\ result' = [valid |-> verifyDecryption(local.decryptedMatrix, local.encryptedMatrix,
                                           local.keys)]
  /\ UNCHANGED <<graph, hamiltonianCycle, k, challenges, i, rounds, local, proof, vi, opened,
                 advRound, advOutcome, accepted, tampers>>

NextBlind ==
  \/ CallEncodeMatrix
  \/ CallDecodeMatrix
  \/ CallEncryptMatrix
  \/ CallDecryptMatrix
  \/ CallVerifyDecryption

SpecBlind == InitBlind /\ [][NextBlind]_vars

CellsOf(m) == (0..(Len(m) - 1)) \X (0..(Len(m) - 1))

\* a^x mod p by x multiplications, each reduced
RECURSIVE PowerMod(_, _, _)
PowerMod(a, x, p) == IF x = 0 THEN 1 % p ELSE (a * PowerMod(a, x - 1, p)) % p

\* C36: for every 0/1 matrix M and every choice of random numbers r, the encoded
\* matrix has the entries r_ij * 2 + M_ij and decodeMatrix returns M from it; for
\* keys with e * d = 1 mod phi(N) and every encoded entry h < N, raising
\* h^d mod N to e mod N returns h, so verifyDecryption holds for the honest
\* encrypt and decrypt pair.
C36_BlindingRoundTrip ==
  LET keys == local.keys
      M == local.matrix
  IN /\ (keys.e * keys.d) % ((keys.p - 1) * (keys.q - 1)) = 1
     /\ pc \notin {"input"} =>
          \A c \in CellsOf(M) :
            /\ Cell(local.encodedMatrix, c[1], c[2])
                 = Cell(local.randomNumbers, c[1], c[2]) * 2 + Cell(M, c[1], c[2])
            /\ Cell(local.encodedMatrix, c[1], c[2]) < keys.N
     /\ pc \notin {"input", "encoded"} => local.decoded = [error |-> NoError, matrix |-> M]
     /\ pc \in {"decrypted", "verified"} =>
          /\ local.decryptedMatrix = local.encodedMatrix
          /\ \A c \in CellsOf(M) :
               Cell(local.encryptedMatrix, c[1], c[2])
                 = PowerMod(Cell(local.encodedMatrix, c[1], c[2]), keys.d, keys.N)
     /\ pc = "verified" => result = [valid |-> TRUE]

\* M with a 1 only at (0,1), r = 2 throughout, N = 55, e = 3, d = 27
C36_Witness ==
  /\ pc = "verified"
  /\ local.matrix = <<<<0, 1>>, <<0, 0>>>>
  /\ local.randomNumbers = <<<<2, 2>>, <<2, 2>>>>
  /\ local.keys = [N |-> 55, e |-> 3, d |-> 27, p |-> 5, q |-> 11]
  /\ local.encodedMatrix = <<<<4, 5>>, <<4, 4>>>>
  /\ local.encryptedMatrix # local.encodedMatrix
  /\ local.decoded.matrix = local.matrix
  /\ result = [valid |-> TRUE]

C36_WitnessDecoded ==
  /\ pc = "decoded"
  /\ local.matrix = <<<<1, 1>>, <<1, 0>>>>
  /\ local.randomNumbers = <<<<0, 1>>, <<2, 1>>>>
  /\ local.encodedMatrix = <<<<1, 3>>, <<5, 2>>>>
  /\ local.decoded.matrix = local.matrix

====
